---- MODULE Spec2Model ----
(***************************************************************************)
(* Presence detection and device reconciliation of sheoak-tree.            *)
(*                                                                         *)
(* The model follows src/app/services/presence_monitor.py (the scan loop,  *)
(* the reconciliation pass, the correlation step), the device routes of    *)
(* src/app/routes/devices.py and the snapshot purge of src/app/cli.py.     *)
(* Time is counted in minutes.  A MAC address is abstracted to the two hex *)
(* characters of its first octet; device fields that no operation below    *)
(* reads (last_ip, last_seen, vendor) are left out.                        *)
(***************************************************************************)
EXTENDS Integers, Sequences, FiniteSets, TLC

VARIABLES
    devices,    \* table device: id -> row
    events,     \* table presence_event, in insertion order (committed rows)
    published,  \* presence_update notifications emitted by the latest operation
    snapshots,  \* table of snapshots: the set of stored timestamps
    now,        \* wall clock, minutes
    scan_interval, \* PresenceMonitor.scan_interval, minutes
    passes,     \* iterations of the scan loop so far
    last,       \* history: what the latest operation was and what it started from
    associations, \* table device_association: the set of stored rows
    stop_event, \* the stop signal shared with the scanner process
    scanner,    \* the scanner process: where it is in its loop
    channel,    \* the queue from the scanner process to the reconciler
    reconciler  \* the reconciler: its lock and the passes it has run

\* The scanner process, the channel and the reconciler.
procVars == <<stop_event, scanner, channel, reconciler>>

vars == <<devices, events, published, snapshots, now, scan_interval, passes, last,
          associations, procVars>>

----------------------------------------------------------------------------
(* Bounds of the model *)

MaxPasses == 2      \* scan loop iterations explored

(* Program constants *)

CorrelationWindowMinutes == 5     \* timedelta(minutes=5)
RetentionDays == 30               \* PRESENCE_SNAPSHOT_RETENTION_DAYS default
StaleMultiplier == 3              \* timedelta(seconds=scan_interval * 3)

RetentionMinutes == RetentionDays * 24 * 60

----------------------------------------------------------------------------
(* Inputs *)

\* First octets: 08 is a vendor MAC, AA has the locally-administered bit set.
MACS == { <<"0", "8">>, <<"A", "A">> }

NoHost == ""
Hostnames == { NoHost, "Ethans-iPhone" }

NoOwner == ""
OwnerList == << "Kaia", "Karys", "Ethan", "Jared" >>

\* owner.lower() in hostname.lower()
HostnameContains(hostname, owner) ==
    hostname = "Ethans-iPhone" /\ owner = "Ethan"

\* Faulty variant of the test: the first character is looked at.
IsRandomMacFirstChar(mac) == mac[1] \in { "2", "6", "A", "E" }

\* mac[1] in ["2", "6", "A", "E"]
IsRandomMac(mac) == mac[2] \in { "2", "6", "A", "E" }

\* Addresses of the subnet, in the order the ARP table lists them.
IPS == << "192.168.1.10", "192.168.1.11" >>

IpSet == { IPS[i] : i \in 1..Len(IPS) }

\* The name a device announces over mDNS: the device with the private
\* (randomized) MAC is Ethan's phone, the other device announces nothing.
AnnouncedName(mac) == IF mac = <<"A", "A">> THEN "Ethans-iPhone" ELSE NoHost

\* ARP tables a scan can return (IP -> MAC), the empty one included.
ArpMaps == UNION { [ S -> MACS ] : S \in SUBSET IpSet }

\* mDNS caches (IP -> hostname) for an ARP table: an address is resolved to
\* the name of the device that holds it, or not resolved yet.
MdnsCaches(arp_map) ==
    { c \in [ DOMAIN arp_map -> Hostnames ] :
        \A ip \in DOMAIN arp_map : c[ip] \in { NoHost, AnnouncedName(arp_map[ip]) } }

\* PresenceMonitor._enrich_data: one record per entry of the ARP table.
RECURSIVE EnrichFrom(_, _, _)
EnrichFrom(arp_map, cache, i) ==
    IF i > Len(IPS) THEN <<>>
    ELSE IF IPS[i] \in DOMAIN arp_map
         THEN << [ mac |-> arp_map[IPS[i]],
                   hostname |-> cache[IPS[i]],
                   is_random |-> IsRandomMac(arp_map[IPS[i]]) ] >>
              \o EnrichFrom(arp_map, cache, i + 1)
         ELSE EnrichFrom(arp_map, cache, i + 1)

EnrichData(arp_map, cache) == EnrichFrom(arp_map, cache, 1)

BatchMacs(batch) == { batch[i].mac : i \in 1..Len(batch) }

\* Where a persistence error strikes in a pass: loading the devices, the
\* flush of the first registration, the commit, or the query/commit of the
\* correlation step.
NoFail == "none"
Fails == { NoFail, "load", "flush", "commit", "corr" }

\* Configured scan interval: the default, PRESENCE_SCAN_INTERVAL = 60 s.
ScanIntervals == { 1 }

----------------------------------------------------------------------------
(* Rows *)

NoLink == 0

NextId(dm) ==
    IF DOMAIN dm = {} THEN 1
    ELSE (CHOOSE d \in DOMAIN dm : \A e \in DOMAIN dm : e <= d) + 1

DeviceByMac(dm, mac) == CHOOSE d \in DOMAIN dm : dm[d].mac_address = mac

KnownMac(dm, mac) == \E d \in DOMAIN dm : dm[d].mac_address = mac

NameHasUnknown(name) == name \in { "Unknown", "UnknownArrivedWith" }
----------------------------------------------------------------------------
(* The reconciliation pass: PresenceMonitor._process_presence *)

\* A session in progress: the rows as the session sees them, the
\* presence_event rows added but not committed, the notifications emitted,
\* the new_arrivals list, and whether a persistence error was raised.
Session(dm) ==
    [ dm |-> dm, ev |-> <<>>, pub |-> <<>>, arrivals |-> <<>>, failed |-> FALSE ]

\* Faulty variants of _handle_change, used to show what the properties below
\* depend on: the whole body moved under the track_presence test; the event
\* and the notification produced for every transition; the event and the
\* notification produced for arrivals only; the notification moved out of
\* the track_presence test.
HandleChangeTrackedOnly(s, d, is_now_home, t) ==
    LET event_type == IF is_now_home THEN "arrived" ELSE "left"
    IN  IF s.dm[d].track_presence
        THEN [ s EXCEPT
                 !.dm[d].is_home = is_now_home,
                 !.ev = Append(@, [ device_id |-> d, event_type |-> event_type,
                                    timestamp |-> t ]),
                 !.pub = Append(@, [ device_id |-> d, event |-> event_type,
                                     is_home |-> is_now_home ]) ]
        ELSE s

HandleChangeAlways(s, d, is_now_home, t) ==
    LET event_type == IF is_now_home THEN "arrived" ELSE "left"
    IN  [ s EXCEPT
            !.dm[d].is_home = is_now_home,
            !.ev = Append(@, [ device_id |-> d, event_type |-> event_type,
                               timestamp |-> t ]),
            !.pub = Append(@, [ device_id |-> d, event |-> event_type,
                                is_home |-> is_now_home ]) ]

HandleChangeArrivalsOnly(s, d, is_now_home, t) ==
    LET s1 == [ s EXCEPT !.dm[d].is_home = is_now_home ]
    IN  IF s.dm[d].track_presence /\ is_now_home
        THEN [ s1 EXCEPT
                 !.ev = Append(@, [ device_id |-> d, event_type |-> "arrived",
                                    timestamp |-> t ]),
                 !.pub = Append(@, [ device_id |-> d, event |-> "arrived",
                                     is_home |-> is_now_home ]) ]
        ELSE s1

HandleChangePublishAlways(s, d, is_now_home, t) ==
    LET event_type == IF is_now_home THEN "arrived" ELSE "left"
        s1 == [ s EXCEPT
                  !.dm[d].is_home = is_now_home,
                  !.pub = Append(@, [ device_id |-> d, event |-> event_type,
                                      is_home |-> is_now_home ]) ]
    IN  IF s.dm[d].track_presence
        THEN [ s1 EXCEPT
                 !.ev = Append(@, [ device_id |-> d, event_type |-> event_type,
                                    timestamp |-> t ]) ]
        ELSE s1

\* Faulty variant of _handle_change: the row of a device that leaves is
\* dropped.
HandleChangeForgetsDeparted(s, d, is_now_home, t) ==
    IF is_now_home
    THEN [ s EXCEPT !.dm[d].is_home = TRUE ]
    ELSE [ s EXCEPT !.dm = [ x \in DOMAIN s.dm \ { d } |-> s.dm[x] ] ]

\* PresenceMonitor._handle_change
HandleChange(s, d, is_now_home, t) ==
    LET event_type == IF is_now_home THEN "arrived" ELSE "left"
        s1 == [ s EXCEPT !.dm[d].is_home = is_now_home ]
    IN  IF s.dm[d].track_presence
        THEN [ s1 EXCEPT
                 !.ev = Append(@, [ device_id |-> d, event_type |-> event_type,
                                    timestamp |-> t ]),
                 !.pub = Append(@, [ device_id |-> d, event |-> event_type,
                                     is_home |-> is_now_home ]) ]
        ELSE s1

\* PresenceMonitor._update_device_metadata
UpdateDeviceMetadata(device, data) ==
    [ device EXCEPT
        !.hostname = IF data.hostname # NoHost THEN data.hostname ELSE @,
        !.is_randomized_mac = data.is_random ]

\* Faulty variant of _register_new_device: the new row is tracked.
RegisterNewDeviceTracked(data) ==
    [ mac_address |-> data.mac,
      name |-> IF data.hostname # NoHost THEN "HostAuto"
               ELSE IF data.is_random THEN "PrivateMac" ELSE "Unknown",
      owner |-> NoOwner,
      hostname |-> data.hostname,
      is_randomized_mac |-> data.is_random,
      is_home |-> TRUE,
      track_presence |-> TRUE,
      linked_to_device_id |-> NoLink ]

\* PresenceMonitor._register_new_device
RegisterNewDevice(data) ==
    [ mac_address |-> data.mac,
      name |-> IF data.hostname # NoHost THEN "HostAuto"
               ELSE IF data.is_random THEN "PrivateMac" ELSE "Unknown",
      owner |-> NoOwner,
      hostname |-> data.hostname,
      is_randomized_mac |-> data.is_random,
      is_home |-> TRUE,
      track_presence |-> FALSE,
      linked_to_device_id |-> NoLink ]

\* A lookup that misses the devices the pass has already seen arrive: the
\* map as it was loaded.
InDeviceMapAsLoaded(s, mac) ==
    \E d \in DOMAIN s.dm :
        /\ s.dm[d].mac_address = mac
        /\ \A i \in DOMAIN s.arrivals : s.arrivals[i] # d

\* "if mac in device_map", the map holding the rows registered so far
\* (device_map[mac] = new_device).
InDeviceMap(s, mac) == KnownMac(s.dm, mac)

\* The loop over the batch, from record i on.  failFlush: the flush of the
\* next registration raises.
RECURSIVE ScanBatch(_, _, _, _, _)
ScanBatch(s, batch, i, failFlush, t) ==
    IF i > Len(batch) \/ s.failed THEN s
    ELSE
      LET data == batch[i] IN
      IF InDeviceMap(s, data.mac)
      THEN LET d == DeviceByMac(s.dm, data.mac)
               s1 == [ s EXCEPT !.dm[d] = UpdateDeviceMetadata(@, data) ]
           IN  IF ~ s1.dm[d].is_home
               THEN ScanBatch([ HandleChange(s1, d, TRUE, t) EXCEPT
                                  !.arrivals = Append(@, d) ],
                              batch, i + 1, failFlush, t)
               ELSE ScanBatch(s1, batch, i + 1, failFlush, t)
      ELSE IF failFlush
           THEN [ s EXCEPT !.failed = TRUE ]
           ELSE LET d == NextId(s.dm)
                    s1 == [ s EXCEPT !.dm = @ @@ (d :> RegisterNewDevice(data)) ]
                IN  ScanBatch([ HandleChange(s1, d, TRUE, t) EXCEPT
                                  !.arrivals = Append(@, d) ],
                              batch, i + 1, failFlush, t)

\* Faulty variant of "Handle Departures": the is_home test is dropped.
RECURSIVE DeparturesOfAbsent(_, _, _, _)
DeparturesOfAbsent(s, todo, macs, t) ==
    IF todo = {} THEN s
    ELSE LET d == CHOOSE x \in todo : \A y \in todo : x <= y
             s1 == IF s.dm[d].mac_address \notin macs
                   THEN HandleChange(s, d, FALSE, t)
                   ELSE s
         IN  DeparturesOfAbsent(s1, todo \ { d }, macs, t)

\* "Handle Departures": every row of device_map, in id order.
RECURSIVE Departures(_, _, _, _)
Departures(s, todo, macs, t) ==
    IF todo = {} THEN s
    ELSE LET d == CHOOSE x \in todo : \A y \in todo : x <= y
             s1 == IF s.dm[d].mac_address \notin macs /\ s.dm[d].is_home
                   THEN HandleChange(s, d, FALSE, t)
                   ELSE s
         IN  Departures(s1, todo \ { d }, macs, t)

\* owners_arrived: owners of the devices with an 'arrived' event in the window.
OwnersArrived(dm, evs, t) ==
    { dm[evs[i].device_id].owner :
        i \in { j \in 1..Len(evs) :
                  /\ evs[j].device_id \in DOMAIN dm
                  /\ evs[j].timestamp >= t - CorrelationWindowMinutes
                  /\ evs[j].event_type = "arrived"
                  /\ dm[evs[j].device_id].owner # NoOwner } }

\* The owner the hostname loop leaves assigned: the last one of the list
\* that the hostname contains (NoOwner if none).
RECURSIVE MatchedOwner(_, _)
MatchedOwner(hostname, i) ==
    IF i = 0 THEN NoOwner
    ELSE IF HostnameContains(hostname, OwnerList[i]) THEN OwnerList[i]
         ELSE MatchedOwner(hostname, i - 1)

CorrelateDevice(device, owners_arrived) ==
    IF device.owner # NoOwner THEN device
    ELSE
      LET owner == IF device.hostname # NoHost
                   THEN MatchedOwner(device.hostname, Len(OwnerList))
                   ELSE NoOwner
          d1 == IF owner # NoOwner
                THEN [ device EXCEPT !.owner = owner, !.track_presence = TRUE,
                                     !.name = "OwnerAuto" ]
                ELSE device
      IN  IF owners_arrived # {} /\ NameHasUnknown(d1.name)
          THEN [ d1 EXCEPT !.name = "UnknownArrivedWith" ]
          ELSE d1

\* _analyze_correlations, when nothing raises.
AnalyzeCorrelations(dm, evs, arrivals, t) ==
    LET owners_arrived == OwnersArrived(dm, evs, t)
        new == { arrivals[i] : i \in 1..Len(arrivals) }
    IN  [ d \in DOMAIN dm |->
            IF d \in new THEN CorrelateDevice(dm[d], owners_arrived) ELSE dm[d] ]

\* The whole pass: what is committed and what was emitted.
ProcessPresence(dm, evs, batch, fail, t) ==
    LET s0 == Session(dm)
        s1 == ScanBatch(s0, batch, 1, fail = "flush", t)
        s2 == IF s1.failed THEN s1
              ELSE Departures(s1, DOMAIN s1.dm, BatchMacs(batch), t)
        evs2 == evs \o s2.ev
    IN  IF fail = "load"
        THEN [ dm |-> dm, evs |-> evs, pub |-> <<>>,
               outcome |-> "rolled_back", corr |-> "none" ]
        ELSE IF s2.failed \/ fail = "commit"
        THEN [ dm |-> dm, evs |-> evs, pub |-> s2.pub,
               outcome |-> "rolled_back", corr |-> "none" ]
        ELSE IF s2.arrivals = <<>>
        THEN [ dm |-> s2.dm, evs |-> evs2, pub |-> s2.pub,
               outcome |-> "committed", corr |-> "none" ]
        ELSE IF fail = "corr"
        THEN [ dm |-> s2.dm, evs |-> evs2, pub |-> s2.pub,
               outcome |-> "committed", corr |-> "lost" ]
        ELSE [ dm |-> AnalyzeCorrelations(s2.dm, evs2, s2.arrivals, t),
               evs |-> evs2, pub |-> s2.pub,
               outcome |-> "committed", corr |-> "committed" ]
----------------------------------------------------------------------------
(* State machine *)

\* What the latest operation was, and the state it started from (the rows
\* are kept for a pass only).
History(op, batch, outcome, corr) ==
    [ op |-> op, batch |-> batch, macs |-> BatchMacs(batch),
      outcome |-> outcome, corr |-> corr,
      pre |-> IF op \in { "reconcile", "status" } THEN devices ELSE <<>>,
      evBefore |-> Len(events),
      preSnaps |-> snapshots,
      repeat |-> /\ op = "reconcile"
                 /\ last.op = "reconcile"
                 /\ last.outcome = "committed"
                 /\ last.macs = BatchMacs(batch) ]

\* Before the scanner process is spawned: nothing is queued or running.
ProcIdle ==
    /\ stop_event = FALSE
    /\ scanner = [ pc |-> "off" ]
    /\ channel = <<>>
    /\ reconciler = [ pc |-> "off" ]

NoHistory ==
    [ op |-> "init", batch |-> <<>>, macs |-> {}, outcome |-> "none", corr |-> "none",
      pre |-> <<>>, evBefore |-> 0, preSnaps |-> {},
      repeat |-> FALSE ]

Init ==
    /\ devices = <<>>
    /\ events = <<>>
    /\ published = <<>>
    /\ snapshots = {}
    /\ now = 0
    /\ scan_interval \in ScanIntervals
    /\ passes = 0
    /\ last = NoHistory
    /\ associations = {}
    /\ ProcIdle

\* One iteration of PresenceMonitor._scan_loop: sleep, scan, and, unless the
\* ARP table came back empty, enrich and reconcile.
ScanLoopIteration(arp_map, cache, fail) ==
    /\ passes < MaxPasses
    /\ passes' = passes + 1
    /\ now' = now + scan_interval
    /\ UNCHANGED <<snapshots, scan_interval, associations, procVars>>
    /\ IF DOMAIN arp_map = {}
       THEN /\ UNCHANGED <<devices, events>>
            /\ published' = <<>>
            /\ last' = History("scan_empty", <<>>, "none", "none")
       ELSE LET batch == EnrichData(arp_map, cache)
                r == ProcessPresence(devices, events, batch, fail, now')
            IN  /\ devices' = r.dm
                /\ events' = r.evs
                /\ published' = r.pub
                /\ last' = History("reconcile", batch, r.outcome, r.corr)

ScanLoop ==
    \E arp_map \in ArpMaps :
        \E cache \in MdnsCaches(arp_map) :
            \E fail \in (IF DOMAIN arp_map = {} THEN { NoFail } ELSE Fails) :
                ScanLoopIteration(arp_map, cache, fail)

\* POST /api/devices/ with body {mac_address, track_presence}.
RegisterDevice ==
    \E mac \in MACS, track \in BOOLEAN :
        /\ UNCHANGED <<events, snapshots, now, scan_interval, passes,
                       associations, procVars>>
        /\ published' = <<>>
        /\ IF KnownMac(devices, mac)
           THEN /\ UNCHANGED devices
                /\ last' = History("register_conflict", <<>>, "none", "none")
           ELSE /\ devices' = devices @@
                      (NextId(devices) :>
                         [ mac_address |-> mac,
                           name |-> "Custom",
                           owner |-> NoOwner,
                           hostname |-> NoHost,
                           is_randomized_mac |-> FALSE,
                           is_home |-> FALSE,
                           track_presence |-> track,
                           linked_to_device_id |-> NoLink ])
                /\ last' = History("register", <<>>, "committed", "none")

\* PUT /api/devices/<id> with body {track_presence}.
UpdateDevice ==
    \E d \in DOMAIN devices, track \in BOOLEAN :
        /\ devices' = [ devices EXCEPT ![d].track_presence = track ]
        /\ last' = History("update", <<>>, "committed", "none")
        /\ UNCHANGED <<events, snapshots, now, scan_interval, passes,
                       associations, procVars>>
        /\ published' = <<>>

Next == ScanLoop \/ RegisterDevice \/ UpdateDevice

Spec == Init /\ [][Next]_vars
----------------------------------------------------------------------------
(* Snapshot retention: flask purge-presence-snapshots *)

\* Faulty variant of the purge filter: the row at the cutoff is deleted too.
PurgedSnapshotsInclusive(snaps, days, t) ==
    { ts \in snaps : ~ (ts <= t - days * 24 * 60) }

\* Rows DevicePresenceSnapshot.timestamp < cutoff are deleted.
PurgedSnapshots(snaps, days, t) ==
    { ts \in snaps : ~ (ts < t - days * 24 * 60) }

\* The command run without --days: the configured retention applies.
PurgePresenceSnapshots ==
    /\ snapshots' = PurgedSnapshots(snapshots, RetentionDays, now)
    /\ published' = <<>>
    /\ last' = History("purge", <<>>, "committed", "none")
    /\ UNCHANGED <<devices, events, now, scan_interval, passes,
                   associations, procVars>>

\* Snapshot rows found in the database at start-up, as timestamps relative
\* to the start: older than the retention window, exactly as old as the
\* window, a minute younger, a minute old, and fresh.
SeedSnapshots ==
    { 0 - RetentionMinutes - 1, 0 - RetentionMinutes, 1 - RetentionMinutes,
      0 - 1, 0 }

\* Faulty variant of the liveness test: a snapshot exactly at the threshold
\* counts as recent.
MonitoringStatusInclusive(snaps, interval, t) ==
    IF snaps = {} THEN "stalled"
    ELSE LET latest_snapshot == CHOOSE ts \in snaps : \A o \in snaps : o <= ts
             threshold == t - interval * StaleMultiplier
         IN  IF latest_snapshot >= threshold THEN "online" ELSE "stalled"

\* get_monitoring_status: system.status of the response.
MonitoringStatus(snaps, interval, t) ==
    IF snaps = {} THEN "stalled"
    ELSE LET latest_snapshot == CHOOSE ts \in snaps : \A o \in snaps : o <= ts
             threshold == t - interval * StaleMultiplier
             monitor_running == latest_snapshot > threshold
         IN  IF monitor_running THEN "online" ELSE "stalled"

\* GET /api/devices/status
GetMonitoringStatus ==
    /\ last' = History("status", <<>>,
                       MonitoringStatus(snapshots, scan_interval, now), "none")
    /\ published' = <<>>
    /\ UNCHANGED <<devices, events, snapshots, now, scan_interval, passes,
                   associations, procVars>>

InitSnapshots ==
    /\ devices = <<>>
    /\ events = <<>>
    /\ published = <<>>
    /\ snapshots \in SUBSET SeedSnapshots
    /\ now = 0
    /\ scan_interval \in ScanIntervals
    /\ passes = 0
    /\ last = NoHistory
    /\ associations = {}
    /\ ProcIdle

SpecSnapshots ==
    /\ InitSnapshots
    /\ [][
           \/ \E arp_map \in ArpMaps :
                \E cache \in MdnsCaches(arp_map) :
                  ScanLoopIteration(arp_map, cache, NoFail)
           \/ PurgePresenceSnapshots
           \/ GetMonitoringStatus
          ]_vars
----------------------------------------------------------------------------
(* Properties of the reconciliation pass *)

\* The latest operation was a pass that reached its commit.
PassCommitted == last.op = "reconcile" /\ last.outcome = "committed"

\* The presence_event rows the latest operation added, per device.
NewEventIdx == (last.evBefore + 1)..Len(events)

EventsOf(d) == { i \in NewEventIdx : events[i].device_id = d }

WasKnown(d) == d \in DOMAIN last.pre

\* C1: after a pass over batch B that commits, every device whose MAC is in
\* B is home, and every device that was home before the pass and whose MAC
\* is absent from B is not home.
PresenceMatchesBatch ==
    PassCommitted =>
        \A d \in DOMAIN devices :
            /\ devices[d].mac_address \in last.macs => devices[d].is_home
            /\ ( /\ WasKnown(d)
                 /\ last.pre[d].is_home
                 /\ devices[d].mac_address \notin last.macs )
               => ~ devices[d].is_home

\* A pass in which one known device arrived and another one left.
PresenceMatchesBatchWitness ==
    /\ PassCommitted
    /\ \E d, e \in DOMAIN last.pre :
        /\ ~ last.pre[d].is_home
        /\ devices[d].mac_address \in last.macs
        /\ devices[d].is_home
        /\ last.pre[e].is_home
        /\ devices[e].mac_address \notin last.macs
        /\ ~ devices[e].is_home

\* C2: a pass that directly follows a committed pass over the same MAC set
\* adds no presence_event row.
RepeatedPassAddsNoEvents ==
    last.repeat => Len(events) = last.evBefore

\* The second of two passes over the same MAC set, the first of which
\* logged an event for a tracked device that is still in the batch.
RepeatedPassAddsNoEventsWitness ==
    /\ last.repeat
    /\ PassCommitted
    /\ \E d \in DOMAIN devices :
        /\ devices[d].track_presence
        /\ devices[d].mac_address \in last.macs
        /\ \E i \in 1..Len(events) : events[i].device_id = d

\* C3: for a device registered with track_presence set, a committed pass
\* adds exactly one 'arrived' event when the device was not home and its MAC
\* is in the batch, exactly one 'left' event when it was home and its MAC is
\* absent, and no event for it otherwise; an operation that is not a
\* committed pass adds no event at all.
TrackedDeviceEvents ==
    /\ ~ PassCommitted => Len(events) = last.evBefore
    /\ PassCommitted =>
        \A d \in DOMAIN last.pre :
            last.pre[d].track_presence =>
                LET present == last.pre[d].mac_address \in last.macs
                    was_home == last.pre[d].is_home
                IN  /\ (~ was_home /\ present) =>
                          /\ Cardinality(EventsOf(d)) = 1
                          /\ \A i \in EventsOf(d) : events[i].event_type = "arrived"
                    /\ (was_home /\ ~ present) =>
                          /\ Cardinality(EventsOf(d)) = 1
                          /\ \A i \in EventsOf(d) : events[i].event_type = "left"
                    /\ (was_home <=> present) => EventsOf(d) = {}

\* A tracked device whose 'arrived' event of an earlier pass is followed by
\* the 'left' event of the pass that has just omitted it.
TrackedDeviceEventsWitness ==
    /\ PassCommitted
    /\ \E d \in DOMAIN last.pre :
        /\ last.pre[d].track_presence
        /\ last.pre[d].is_home
        /\ last.pre[d].mac_address \notin last.macs
        /\ \E i \in 1..last.evBefore :
            /\ events[i].device_id = d
            /\ events[i].event_type = "arrived"
        /\ \E j \in EventsOf(d) : events[j].event_type = "left"

\* The devices the latest pass registered.
AutoRegistered == DOMAIN devices \ DOMAIN last.pre

FailureFree ==
    ProcessPresence(last.pre, SubSeq(events, 1, last.evBefore), last.batch,
                    NoFail, now)

\* C6: a pass is atomic: the committed state after it holds either every
\* change of the batch (the state a failure-free pass commits) or none of
\* them (the state before the pass).
PassAllOrNothing ==
    last.op = "reconcile" =>
        \/ devices = FailureFree.dm /\ events = FailureFree.evs
        \/ devices = last.pre /\ Len(events) = last.evBefore

\* C7: a pass in which a persistence error was raised leaves the database
\* as it was before the pass, so that the next pass starts from the state
\* the failed batch found.
FailedPassLeavesNoTrace ==
    ( /\ last.op = "reconcile"
      /\ last.outcome = "rolled_back" \/ last.corr = "lost" )
    => devices = last.pre /\ Len(events) = last.evBefore

\* The notifications of the latest operation about device d.
PublishedOf(d) == { i \in 1..Len(published) : published[i].device_id = d }

\* is_home of d differs between the states before and after the latest pass
\* (a device the pass registered has become home).
HomeChanged(d) ==
    IF WasKnown(d) THEN last.pre[d].is_home # devices[d].is_home
    ELSE devices[d].is_home

PassWritesSnapshot ==
    PassCommitted => now \in snapshots /\ snapshots # last.preSnaps

----------------------------------------------------------------------------
(* Properties of the snapshot retention *)

Cutoff == now - RetentionMinutes

StatusFromLatestSnapshot ==
    last.op = "status" =>
        /\ last.outcome \in { "online", "stalled" }
        /\ last.outcome = "online" <=>
               \E ts \in snapshots : ts > now - 3 * scan_interval
        /\ devices = last.pre
        /\ Len(events) = last.evBefore
        /\ snapshots = last.preSnaps

\* The status computed 'online' after a pass, from a table that also holds
\* snapshots older than the threshold.
StatusFromLatestSnapshotWitness ==
    /\ last.op = "status"
    /\ last.outcome = "online"
    /\ passes > 0
    /\ \E ts \in snapshots : ts <= now - 3 * scan_interval
----------------------------------------------------------------------------
(* Classification of a MAC as randomized, in the two places that compute it *)

HexDigits == << "0", "1", "2", "3", "4", "5", "6", "7",
                "8", "9", "A", "B", "C", "D", "E", "F" >>

\* f"{b:02X}": a byte of the SNMP value as two upper-case hex characters.
FormatOctet(b) == << HexDigits[(b \div 16) + 1], HexDigits[(b % 16) + 1] >>

\* The first octet as the OS ARP table prints it: two hex characters in
\* either case.
ArpTextChars ==
    { HexDigits[i] : i \in 1..Len(HexDigits) } \cup { "a", "b", "c", "d", "e", "f" }

ArpTextOctets == { << c1, c2 >> : c1 \in ArpTextChars, c2 \in ArpTextChars }

\* str.upper() on a hex character.
ToUpper(c) ==
    CASE c = "a" -> "A" [] c = "b" -> "B" [] c = "c" -> "C"
      [] c = "d" -> "D" [] c = "e" -> "E" [] c = "f" -> "F"
      [] OTHER -> c

\* mac.upper() in NetworkDiscovery.get_arp_table
UpperMac(raw) == << ToUpper(raw[1]), ToUpper(raw[2]) >>

\* scanner_process_entry: second_char = mac[1].upper(); the length test
\* holds for every MAC that get_arp_table returns.
WorkerIsRandom(mac) == ToUpper(mac[2]) \in { "2", "6", "A", "E" }

\* PresenceMonitor: a MAC read by the SNMP walk is formatted and classified
\* by _enrich_data.
EnrichOctet ==
    \E b \in 0..255 :
        /\ last' = [ op |-> "enrich", byte |-> b, mac |-> FormatOctet(b),
                     is_random |-> IsRandomMac(FormatOctet(b)) ]
        /\ UNCHANGED <<devices, events, published, snapshots, now,
                       scan_interval, passes, associations, procVars>>

\* Scanner process: a MAC read from the ARP table is upper-cased and
\* classified by the scan loop.
WorkerClassify ==
    \E raw \in ArpTextOctets :
        /\ last' = [ op |-> "classify", raw |-> raw, mac |-> UpperMac(raw),
                     is_random |-> WorkerIsRandom(UpperMac(raw)) ]
        /\ UNCHANGED <<devices, events, published, snapshots, now,
                       scan_interval, passes, associations, procVars>>

SpecRandom ==
    /\ Init
    /\ [][
           EnrichOctet \/ WorkerClassify
          ]_vars

\* C12: in both places a MAC is classified as randomized exactly when the
\* second hex character of its first octet, taken case-insensitively, is
\* one of 2, 6, A, E: for a MAC formatted from the SNMP bytes that is when
\* the low nibble of the first byte is 2, 6, 10 or 14, for a MAC read from
\* the ARP table it is decided on the character as the table prints it.
RandomizedIffSecondHexChar ==
    /\ last.op = "enrich" =>
        /\ last.is_random <=> (last.byte % 16) \in { 2, 6, 10, 14 }
        /\ last.is_random <=> last.mac[2] \in { "2", "6", "A", "E" }
    /\ last.op = "classify" =>
        ( last.is_random <=>
            last.raw[2] \in { "2", "6", "A", "E", "a", "e" } )

\* A MAC printed in lower case by the ARP table and classified as randomized.
RandomizedIffSecondHexCharWitness ==
    /\ last.op = "classify"
    /\ last.raw = << "d", "e" >>
    /\ last.is_random
----------------------------------------------------------------------------
(* IdentityCorrelator: similarity of two fingerprints.  Scores are counted *)
(* in thousandths, weights in hundredths.                                  *)

WeightHostname == 50     \* hostname_pattern exact match
WeightServices == 30     \* mDNS service-set overlap (binary)
WeightHours == 20        \* connection-hour Jaccard overlap
FullScore == 1000        \* the score 1.0

NoPattern == ""

\* A fingerprint: hostname_pattern (NoPattern if the device has no
\* hostname), the mDNS service types, the hours of day of its connections.
Patterns == { NoPattern, "iphone", "macbook" }
ServiceSets == SUBSET { "_airplay._tcp.local.", "_googlecast._tcp.local." }
HourSets == SUBSET { 8, 20 }

Fingerprints ==
    [ hostname_pattern : Patterns, mdns_services : ServiceSets, hours : HourSets ]

\* The features of a and b that both sides have data for, each with its
\* weight and the degree (in thousandths) to which the two sides agree.
ComparableFeatures(a, b) ==
    ( IF a.hostname_pattern # NoPattern /\ b.hostname_pattern # NoPattern
      THEN { [ weight |-> WeightHostname, feature |-> "hostname_pattern",
               match |-> IF a.hostname_pattern = b.hostname_pattern
                         THEN FullScore ELSE 0 ] }
      ELSE {} )
    \cup
    ( IF a.mdns_services # {} /\ b.mdns_services # {}
      THEN { [ weight |-> WeightServices, feature |-> "mdns_services",
               match |-> IF a.mdns_services \cap b.mdns_services # {}
                         THEN FullScore ELSE 0 ] }
      ELSE {} )
    \cup
    ( IF a.hours # {} /\ b.hours # {}
      THEN { [ weight |-> WeightHours, feature |-> "hours",
               match |-> (FullScore * Cardinality(a.hours \cap b.hours))
                             \div Cardinality(a.hours \cup b.hours) ] }
      ELSE {} )

RECURSIVE SumOver(_, _)
SumOver(fs, field) ==
    IF fs = {} THEN 0
    ELSE LET f == CHOOSE x \in fs : TRUE
         IN  (IF field = "weight" THEN f.weight ELSE f.weight * f.match)
             + SumOver(fs \ { f }, field)

\* Faulty variant: the weighted sum is divided by the sum of all weights.
SimilarityOverAllWeights(a, b) ==
    LET fs == ComparableFeatures(a, b)
    IN  IF fs = {} THEN 0
        ELSE SumOver(fs, "weighted") \div (WeightHostname + WeightServices + WeightHours)

\* Similarity(a, b): weighted sum over the comparable features, divided by
\* the sum of the weights evaluated; 0 if nothing is comparable.
Similarity(a, b) ==
    LET fs == ComparableFeatures(a, b)
    IN  IF fs = {} THEN 0
        ELSE SumOver(fs, "weighted") \div SumOver(fs, "weight")

InitSimilarity ==
    /\ devices = <<>>
    /\ events = <<>>
    /\ published = <<>>
    /\ snapshots = {}
    /\ now = 0
    /\ scan_interval \in ScanIntervals
    /\ passes = 0
    /\ last \in [ op : { "fingerprints" }, a : Fingerprints, b : Fingerprints ]
    /\ associations = {}
    /\ ProcIdle

ComputeSimilarity ==
    /\ last.op = "fingerprints"
    /\ last' = [ op |-> "similarity", a |-> last.a, b |-> last.b,
                 score |-> Similarity(last.a, last.b) ]
    /\ UNCHANGED <<devices, events, published, snapshots, now, scan_interval,
                   passes, associations, procVars>>

SpecSimilarity == InitSimilarity /\ [][ComputeSimilarity]_vars

\* Both fingerprints have data for the feature.
BothHave(feature) ==
    IF feature = "hostname_pattern"
    THEN last.a.hostname_pattern # NoPattern /\ last.b.hostname_pattern # NoPattern
    ELSE IF feature = "mdns_services"
    THEN last.a.mdns_services # {} /\ last.b.mdns_services # {}
    ELSE last.a.hours # {} /\ last.b.hours # {}

\* C13: two fingerprints with the same hostname_pattern and no other
\* comparable feature score exactly 1.0, two fingerprints with no
\* comparable feature score exactly 0.0; in general the score lies between
\* 0.0 and 1.0, is 1.0 when every comparable feature agrees fully and 0.0
\* when none agrees at all (features that only one side has do not count).
SimilarityOverComparable ==
    last.op = "similarity" =>
        LET same_pattern == last.a.hostname_pattern = last.b.hostname_pattern
            shared == last.a.mdns_services \cap last.b.mdns_services # {}
            same_hours == last.a.hours = last.b.hours
            no_hours == last.a.hours \cap last.b.hours = {}
        IN  /\ last.score \in 0..1000
            /\ ( /\ BothHave("hostname_pattern") /\ same_pattern
                 /\ ~ BothHave("mdns_services")
                 /\ ~ BothHave("hours") ) => last.score = 1000
            /\ ( /\ ~ BothHave("hostname_pattern")
                 /\ ~ BothHave("mdns_services")
                 /\ ~ BothHave("hours") ) => last.score = 0
            /\ ( /\ BothHave("hostname_pattern") \/ BothHave("mdns_services")
                        \/ BothHave("hours")
                 /\ BothHave("hostname_pattern") => same_pattern
                 /\ BothHave("mdns_services") => shared
                 /\ BothHave("hours") => same_hours ) => last.score = 1000
            /\ ( /\ BothHave("hostname_pattern") => ~ same_pattern
                 /\ BothHave("mdns_services") => ~ shared
                 /\ BothHave("hours") => no_hours ) => last.score = 0

\* Two fingerprints that share the hostname_pattern, one of which has
\* services and hours that the other lacks, scored 1.0.
SimilarityOverComparableWitness ==
    /\ last.op = "similarity"
    /\ last.a.hostname_pattern = "iphone"
    /\ last.b.hostname_pattern = "iphone"
    /\ last.a.mdns_services # {}
    /\ last.a.hours # {}
    /\ last.b.mdns_services = {}
    /\ last.b.hours = {}
    /\ last.score = 1000

-----------------------------------------------------------------------------
(* Identity links: the IdentityCorrelator and the routes that touch links *)

\* Correlation threshold, in thousandths: the default, and a value that some
\* pair of fingerprints scores exactly.
DefaultThreshold == 650
Thresholds == { DefaultThreshold, 625 }

\* link_confidence of a device that is not linked (NULL).
NoConfidence == 0 - 1

HostnamePattern(hostname) ==
    IF hostname = "Ethans-iPhone" THEN "iphone"
    ELSE IF hostname = "Kaias-MacBook" THEN "macbook"
    ELSE NoPattern

Fingerprint(device) ==
    [ hostname_pattern |-> HostnamePattern(device.hostname),
      mdns_services |-> device.mdns_services,
      hours |-> device.typical_connection_times ]

\* The devices a new randomized device is compared against.
Candidates(dm, d) ==
    { c \in DOMAIN dm \ { d } : dm[c].track_presence /\ ~ dm[c].is_randomized_mac }

Score(dm, d, c) == Similarity(Fingerprint(dm[d]), Fingerprint(dm[c]))

\* The candidate with the highest score; of several, the first one visited.
BestCandidate(dm, d) ==
    CHOOSE c \in Candidates(dm, d) :
        \A e \in Candidates(dm, d) :
            \/ Score(dm, d, c) > Score(dm, d, e)
            \/ Score(dm, d, c) = Score(dm, d, e) /\ c <= e

\* Faulty variant: a score equal to the threshold is rejected.
CorrelateAboveThreshold(dm, d, threshold) ==
    IF Candidates(dm, d) = {} THEN dm
    ELSE LET c == BestCandidate(dm, d)
         IN  IF Score(dm, d, c) > threshold
             THEN [ dm EXCEPT ![d].linked_to_device_id = c,
                              ![d].link_confidence = Score(dm, d, c),
                              ![d].track_presence = dm[c].track_presence,
                              ![d].name = "LinkedAuto" ]
             ELSE dm

\* The matching policy applied to device d.
Correlate(dm, d, threshold) ==
    IF Candidates(dm, d) = {} THEN dm
    ELSE LET c == BestCandidate(dm, d)
         IN  IF Score(dm, d, c) >= threshold
             THEN [ dm EXCEPT ![d].linked_to_device_id = c,
                              ![d].link_confidence = Score(dm, d, c),
                              ![d].track_presence = dm[c].track_presence,
                              ![d].name = "LinkedAuto" ]
             ELSE dm

\* The columns of a device row that the fingerprint is read from.
FingerprintColumns(services, hours) ==
    [ link_confidence |-> NoConfidence,
      mdns_services |-> services,
      typical_connection_times |-> hours ]

StableRow(mac, hostname, track, services, hours) ==
    [ mac_address |-> mac,
      name |-> "Custom",
      owner |-> NoOwner,
      hostname |-> hostname,
      is_randomized_mac |-> FALSE,
      is_home |-> FALSE,
      track_presence |-> track,
      linked_to_device_id |-> NoLink ] @@ FingerprintColumns(services, hours)

\* A device table with stable identities already known: two tracked devices
\* and one that is not tracked.
KnownDevices ==
    (1 :> StableRow(<<"0", "8">>, "Ethans-iPhone", TRUE,
                    { "_airplay._tcp.local." }, { 8 }))
    @@ (2 :> StableRow(<<"0", "C">>, "Kaias-MacBook", TRUE,
                       { "_airplay._tcp.local." }, { 8, 20 }))
    @@ (3 :> StableRow(<<"1", "0">>, "Ethans-iPhone", FALSE,
                       { "_googlecast._tcp.local." }, { 20 }))

RandomizedMacs == { <<"A", "A">> }

InitCorrelate ==
    /\ devices = KnownDevices
    /\ events = <<>>
    /\ published = <<>>
    /\ snapshots = {}
    /\ now = 0
    /\ scan_interval \in ScanIntervals
    /\ passes = 0
    /\ last = [ op |-> "none" ]
    /\ associations = {}
    /\ ProcIdle

\* A pass in which a device with an unknown randomized MAC is discovered: the
\* device is registered as a fresh arrival and the correlator is run on it.
ArriveRandomized ==
    \E mac \in RandomizedMacs, hostname \in Hostnames, services \in ServiceSets,
       hours \in HourSets, threshold \in Thresholds :
        /\ ~ KnownMac(devices, mac)
        /\ LET d == NextId(devices)
               data == [ mac |-> mac, hostname |-> hostname,
                         is_random |-> IsRandomMac(mac) ]
               dm == devices @@
                       (d :> (RegisterNewDevice(data)
                                 @@ FingerprintColumns(services, hours)))
           IN  /\ devices' = Correlate(dm, d, threshold)
               /\ last' = [ op |-> "correlate", device |-> d,
                            threshold |-> threshold, pre |-> dm ]
        /\ published' = <<>>
        /\ UNCHANGED <<events, snapshots, now, scan_interval, passes,
                       associations, procVars>>

\* PUT /api/devices/<id> with body {is_randomized_mac}.
UpdateDeviceRandomized ==
    \E d \in DOMAIN devices, flag \in BOOLEAN :
        /\ devices' = [ devices EXCEPT ![d].is_randomized_mac = flag ]
        /\ last' = [ op |-> "update", device |-> d ]
        /\ published' = <<>>
        /\ UNCHANGED <<events, snapshots, now, scan_interval, passes,
                       associations, procVars>>

RECURSIVE EventsNotOf(_, _)
EventsNotOf(evs, d) ==
    IF evs = <<>> THEN <<>>
    ELSE IF Head(evs).device_id = d THEN EventsNotOf(Tail(evs), d)
         ELSE <<Head(evs)>> \o EventsNotOf(Tail(evs), d)

\* A removal that leaves the links to the removed device in place.
UnlinkedNever(dm, d) ==
    [ x \in DOMAIN dm \ { d } |-> dm[x] ]

\* remove_device: Device.query.filter_by(linked_to_device_id=device_id)
\* .update(...), then db.session.delete(device).
Unlinked(dm, d) ==
    [ x \in DOMAIN dm \ { d } |->
        IF dm[x].linked_to_device_id = d
        THEN [ dm[x] EXCEPT !.linked_to_device_id = NoLink,
                            !.link_confidence = NoConfidence ]
        ELSE dm[x] ]

\* DELETE /api/devices/<id>[?delete_events=true]; an exception anywhere
\* before the commit returns rolls the session back.
RemoveDevice ==
    \E d \in DOMAIN devices, delete_events \in BOOLEAN, failed \in BOOLEAN :
        /\ IF failed
           THEN UNCHANGED <<associations, events, devices>>
           ELSE /\ associations' =
                      { a \in associations :
                          a.device1_id # d /\ a.device2_id # d }
                /\ events' = IF delete_events THEN EventsNotOf(events, d)
                             ELSE events
                /\ devices' = Unlinked(devices, d)
        /\ last' = [ op |-> "remove", device |-> d,
                     outcome |-> IF failed THEN "rolled_back" ELSE "committed",
                     before |-> [ devices |-> devices,
                                  associations |-> associations ] ]
        /\ published' = <<>>
        /\ UNCHANGED <<snapshots, now, scan_interval, passes, procVars>>

SpecCorrelate ==
    /\ InitCorrelate
    /\ [][
           ArriveRandomized \/ UpdateDeviceRandomized \/ RemoveDevice
          ]_vars

LinkedDevices == { d \in DOMAIN devices : devices[d].linked_to_device_id # NoLink }

LinksReferenceStableDevices ==
    \A d \in LinkedDevices :
        /\ devices[d].linked_to_device_id \in DOMAIN devices
        /\ ~ devices[devices[d].linked_to_device_id].is_randomized_mac
        /\ devices[d].link_confidence \in 0..FullScore

-----------------------------------------------------------------------------
(* The pass of PresenceMonitor over a table that holds stable identities *)

InitKnownDevices ==
    /\ devices = KnownDevices
    /\ events = <<>>
    /\ published = <<>>
    /\ snapshots = {}
    /\ now = 0
    /\ scan_interval \in ScanIntervals
    /\ passes = 0
    /\ last = NoHistory
    /\ associations = {}
    /\ ProcIdle

SpecKnownDevices ==
    /\ InitKnownDevices
    /\ [][
           \/ \E arp_map \in ArpMaps :
                \E cache \in MdnsCaches(arp_map) :
                  ScanLoopIteration(arp_map, cache, NoFail)
           \/ UpdateDevice
          ]_vars

\* The fingerprint of a stored row; the fingerprint columns default to empty.
StoredFingerprint(device) == Fingerprint(device @@ FingerprintColumns({}, {}))

\* The devices that the latest pass turned home and that have a randomized
\* MAC.
NewRandomizedArrivals ==
    { d \in DOMAIN devices :
        /\ devices[d].is_home
        /\ devices[d].is_randomized_mac
        /\ WasKnown(d) => ~ last.pre[d].is_home }

\* C15: a newly arrived randomized-MAC device is compared against every
\* tracked non-randomized device and the candidate with the highest score is
\* chosen; if that score reaches the threshold the device gets
\* linked_to_device_id = that candidate, link_confidence = that score and
\* the candidate's track_presence.
ArrivalLinkedToBestCandidate ==
    PassCommitted =>
        \A d \in NewRandomizedArrivals :
            LET cands == { c \in DOMAIN devices \ { d } :
                              devices[c].track_presence
                              /\ ~ devices[c].is_randomized_mac }
                scoreOf(c) == Similarity(StoredFingerprint(devices[d]),
                                         StoredFingerprint(devices[c]))
            IN  \A c \in cands :
                    ( /\ scoreOf(c) >= DefaultThreshold
                      /\ \A e \in cands : scoreOf(e) <= scoreOf(c) )
                    => /\ devices[d].linked_to_device_id \in cands
                       /\ scoreOf(devices[d].linked_to_device_id) = scoreOf(c)
                       /\ devices[d].track_presence
                       /\ (devices[d] @@ FingerprintColumns({}, {})).link_confidence
                             = scoreOf(c)

-----------------------------------------------------------------------------
(* Co-occurrence: the CoOccurrenceTracker and table device_association *)

\* Faulty variant: the pair is stored in the order it was visited in.
PairAsVisited(a, b) == <<a, b>>

\* The canonical order of a pair: the lower id first.
CanonicalPair(a, b) == IF a <= b THEN <<a, b>> ELSE <<b, a>>

\* Increment the row of the pair and refresh last_seen_together if the row
\* is there, else insert it with count 1.
Upsert(assocs, a, b, t) ==
    LET key == CanonicalPair(a, b)
        rows == { r \in assocs : r.device1_id = key[1] /\ r.device2_id = key[2] }
    IN  IF rows # {}
        THEN (assocs \ rows) \cup
             { [ r EXCEPT !.co_occurrence_count = @ + 1,
                          !.last_seen_together = t ] : r \in rows }
        ELSE assocs \cup { [ device1_id |-> key[1], device2_id |-> key[2],
                             co_occurrence_count |-> 1,
                             last_seen_together |-> t ] }

\* Every pair of the devices in order, from positions i < j on.
RECURSIVE TrackPairs(_, _, _, _, _)
TrackPairs(assocs, order, i, j, t) ==
    IF i >= Len(order) THEN assocs
    ELSE IF j > Len(order) THEN TrackPairs(assocs, order, i + 1, i + 2, t)
    ELSE TrackPairs(Upsert(assocs, order[i], order[j], t), order, i, j + 1, t)

\* The orders in which the devices of H can be visited.
Orders(H) ==
    { f \in [ 1..Cardinality(H) -> H ] :
        \A x, y \in 1..Cardinality(H) : x # y => f[x] # f[y] }

\* A pass after which the devices of H are home, with the tracker run over
\* them.
CoOccurrencePass ==
    \E H \in SUBSET DOMAIN devices :
        \E order \in Orders(H) :
            /\ passes < MaxPasses
            /\ passes' = passes + 1
            /\ now' = now + scan_interval
            /\ devices' = [ d \in DOMAIN devices |->
                              [ devices[d] EXCEPT !.is_home = d \in H ] ]
            /\ associations' = TrackPairs(associations, order, 1, 2, now')
            /\ last' = [ op |-> "cooccur", home |-> H, order |-> order,
                         preAssoc |-> associations ]
            /\ published' = <<>>
            /\ UNCHANGED <<events, snapshots, scan_interval, procVars>>

SpecCoOccurrence ==
    /\ InitCorrelate
    /\ [][
           CoOccurrencePass \/ RemoveDevice
          ]_vars

\* The rows stored for the unordered pair {a, b}, in S.
RowsOfPair(S, a, b) ==
    { r \in S : \/ r.device1_id = a /\ r.device2_id = b
                \/ r.device1_id = b /\ r.device2_id = a }

CountOfPair(S, a, b) ==
    IF RowsOfPair(S, a, b) = {} THEN 0
    ELSE (CHOOSE r \in RowsOfPair(S, a, b) : TRUE).co_occurrence_count

\* C17: there is never a second row for the same unordered pair, and each
\* pass in which two devices are both home adds one to the count of their
\* single row (starting from no row), so that N consecutive passes with both
\* home end with one row whose co_occurrence_count is N, in whichever order
\* the devices are visited.
OneRowPerPairCountingPasses ==
    /\ \A a, b \in DOMAIN devices :
          /\ Cardinality(RowsOfPair(associations, a, b)) <= 1
          /\ CountOfPair(associations, a, b) <= passes
    /\ last.op = "cooccur" =>
          \A a, b \in last.home :
              a # b =>
                /\ Cardinality(RowsOfPair(associations, a, b)) = 1
                /\ CountOfPair(associations, a, b)
                      = CountOfPair(last.preAssoc, a, b) + 1

OneRowPerPairCountingPassesWitness ==
    /\ last.op = "cooccur"
    /\ passes = MaxPasses
    /\ last.order = <<2, 1>>
    /\ RowsOfPair(last.preAssoc, 1, 2) # {}
    /\ CountOfPair(associations, 1, 2) = MaxPasses

-----------------------------------------------------------------------------
(* The scan loops: scanner_process_entry and PresenceMonitor._scan_loop *)

\* Cycles a scan loop runs.
MaxCycles == 2

\* Configured interval between cycles and duration of a cycle, in seconds.
ScannerIntervals == { 2, 7 }
ElapsedSeconds == 0..2

\* sleep_time = max(1, interval - elapsed)
MinSleep == 1
SleepTime(interval, elapsed) ==
    IF interval - elapsed > MinSleep THEN interval - elapsed ELSE MinSleep

\* Faulty variant: every sleep is slept in one piece.
ChunkedSleepNever(sleep_time) == FALSE

\* "if sleep_time > 5": the sleep is cut into one-second steps.
ChunkThreshold == 5
ChunkedSleep(sleep_time) == sleep_time > ChunkThreshold

\* What can go wrong in a cycle: a ping that raises, an ARP table that cannot
\* be read or parsed to the end, an SNMP walk that fails, and an exception
\* raised elsewhere in the body of the loop.
\* The ARP tables of the network in a cycle: no host, one host, two hosts.
ScannerTables ==
    { t \in ArpMaps :
        \/ DOMAIN t = {}
        \/ DOMAIN t = { IPS[1] } /\ t[IPS[1]] = <<"0", "8">>
        \/ DOMAIN t = IpSet /\ t[IPS[1]] = <<"0", "8">> /\ t[IPS[2]] = <<"A", "A">> }

CollectorFailures ==
    [ process |-> { "none", "ping", "arp", "raise" },
      thread |-> { "none", "snmp", "raise" } ]

\* The ARP data a cycle ends up with when the network holds table.
Collected(table, failure) ==
    IF failure \in { "ping", "arp", "snmp" }
    THEN { [ ip \in S |-> table[ip] ] : S \in SUBSET DOMAIN table }
    ELSE { table }

\* Faulty variant: an exception raised in the body of the loop leaves it.
CaughtCollectorsOnly(failure) == failure # "raise"

\* "except Exception" around the body of the loop.
CaughtInLoop(failure) == TRUE

\* The scan loop starts to sleep.
GoToSleep(sc, sleep_time, chunked) ==
    [ sc EXCEPT !.pc = IF chunked THEN "check" ELSE "sleep",
                !.left = sleep_time,
                !.unseen = 0 ]

InitScanner ==
    /\ devices = <<>>
    /\ events = <<>>
    /\ published = <<>>
    /\ snapshots = {}
    /\ now = 0
    /\ scan_interval \in ScanIntervals
    /\ passes = 0
    /\ last = [ op |-> "none" ]
    /\ associations = {}
    /\ stop_event = FALSE
    /\ scanner \in [ variant : { "process", "thread" },
                     interval : ScannerIntervals,
                     pc : { "loop" }, left : { 0 }, unseen : { 0 },
                     cycles : { 0 }, failures : { 0 } ]
    /\ channel = <<>>
    /\ reconciler = [ active |-> {}, done |-> <<>>, loop |-> "polling",
                       parent |-> "running", waited |-> 0 ]

\* stop_event.set() by the parent; PresenceMonitor.cleanup for the thread.
SetStop ==
    /\ ~ stop_event
    /\ scanner.pc # "exited"
    /\ stop_event' = TRUE
    /\ UNCHANGED <<devices, events, published, snapshots, now, scan_interval,
                   passes, last, associations, scanner, channel, reconciler>>

\* "while not stop_event.is_set()" is false: the loop is left.
LoopExit ==
    /\ scanner.pc = "loop"
    /\ stop_event
    /\ scanner' = [ scanner EXCEPT !.pc = "exited" ]
    /\ last' = [ op |-> "exit" ]
    /\ UNCHANGED <<devices, events, published, snapshots, now, scan_interval,
                   passes, associations, stop_event, channel, reconciler>>

\* A cycle that hands over whatever it built.
NonEmptyAlways(batch) == TRUE

\* "if batch:" before queue.put(batch)
NonEmpty(batch) == batch # <<>>

\* One cycle of scanner_process_entry, up to the start of its sleep, for the
\* given ARP tables, failures and durations of the cycle.
ProcessCycleOf(tables, failures, durations) ==
    \E table \in tables, failure \in failures, elapsed \in durations :
      \E got \in Collected(table, failure) :
        \E cache \in MdnsCaches(got) :
            LET batch == EnrichData(got, cache)
                sent == failure # "raise" /\ NonEmpty(batch)
                sc == [ scanner EXCEPT
                          !.cycles = @ + 1,
                          !.failures = IF failure = "none" THEN @ ELSE @ + 1 ]
                sleep_time == SleepTime(scanner.interval, elapsed)
            IN  /\ scanner.variant = "process"
                /\ scanner.pc = "loop"
                /\ ~ stop_event
                /\ scanner.cycles < MaxCycles
                /\ channel' = IF sent
                              THEN Append(channel, [ seq |-> sc.cycles,
                                                     batch |-> batch ])
                              ELSE channel
                /\ scanner' = IF CaughtInLoop(failure)
                              THEN GoToSleep(sc, sleep_time,
                                             ChunkedSleep(sleep_time))
                              ELSE [ sc EXCEPT !.pc = "exited" ]
                /\ last' = [ op |-> "cycle", failure |-> failure,
                             table |-> table, got |-> got, sent |-> sent,
                             batch |-> batch ]
                /\ UNCHANGED <<devices, events, published, snapshots, now,
                               scan_interval, passes, associations,
                               stop_event, reconciler>>

ProcessCycle ==
    ProcessCycleOf(ScannerTables, CollectorFailures.process, ElapsedSeconds)

\* One cycle of PresenceMonitor._scan_loop, up to the start of its sleep.
ThreadCycle ==
    \E table \in ScannerTables, failure \in CollectorFailures.thread :
      \E got \in Collected(table, failure) :
        \E cache \in MdnsCaches(got) :
            LET batch == EnrichData(got, cache)
                processed == failure # "raise" /\ DOMAIN got # {}
                r == ProcessPresence(devices, events, batch, NoFail, now)
                sc == [ scanner EXCEPT
                          !.cycles = @ + 1,
                          !.failures = IF failure = "none" THEN @ ELSE @ + 1 ]
            IN  /\ scanner.variant = "thread"
                /\ scanner.pc = "loop"
                /\ ~ stop_event
                /\ scanner.cycles < MaxCycles
                /\ devices' = IF processed THEN r.dm ELSE devices
                /\ events' = IF processed THEN r.evs ELSE events
                /\ published' = IF processed THEN r.pub ELSE <<>>
                /\ scanner' = GoToSleep(sc, scanner.interval, FALSE)
                /\ last' = [ op |-> "cycle", failure |-> failure,
                             table |-> table, got |-> got, sent |-> processed,
                             batch |-> batch ]
                /\ UNCHANGED <<snapshots, now, scan_interval, passes,
                               associations, stop_event, channel, reconciler>>

\* The head of "for _ in range(int(sleep_time))" with its test of the stop
\* signal: leave the sleep, or start to sleep one second.
ChunkCheck ==
    /\ scanner.pc = "check"
    /\ scanner' = IF scanner.left = 0 \/ stop_event
                  THEN [ scanner EXCEPT !.pc = "loop", !.left = 0 ]
                  ELSE [ scanner EXCEPT !.pc = "nap" ]
    /\ UNCHANGED <<devices, events, published, snapshots, now, scan_interval,
                   passes, last, associations, stop_event, channel, reconciler>>

\* A second passes in time.sleep(1).
ChunkNap ==
    /\ scanner.pc = "nap"
    /\ scanner' = [ scanner EXCEPT
                      !.pc = "check",
                      !.left = @ - 1,
                      !.unseen = IF stop_event THEN @ + 1 ELSE 0 ]
    /\ UNCHANGED <<devices, events, published, snapshots, now, scan_interval,
                   passes, last, associations, stop_event, channel, reconciler>>

\* A second passes in time.sleep(sleep_time), or the sleep returns.
SleepTick ==
    /\ scanner.pc = "sleep"
    /\ scanner' = IF scanner.left = 0
                  THEN [ scanner EXCEPT !.pc = "loop" ]
                  ELSE [ scanner EXCEPT
                           !.left = @ - 1,
                           !.unseen = IF stop_event THEN @ + 1 ELSE 0 ]
    /\ UNCHANGED <<devices, events, published, snapshots, now, scan_interval,
                   passes, last, associations, stop_event, channel, reconciler>>

\* Runs of SnmpPresenceScanner.run that hand clients to the reconciler.
MaxSnmpRuns == 1

\* Faulty variant: the newest batch is taken from the channel.
NewestBatchIndex(q) == Len(q)

\* The batch the receive loop takes from the channel: the oldest.
NextBatchIndex(q) == 1

RemoveAt(q, i) == SubSeq(q, 1, i - 1) \o SubSeq(q, i + 1, Len(q))

\* No pass is in progress.
LockFree == reconciler.active = {}

\* The receive loop takes a batch and starts a pass on it.
BeginPass ==
    /\ scanner.variant = "process"
    /\ reconciler.loop = "polling"
    /\ channel # <<>>
    /\ LockFree
    /\ LET i == NextBatchIndex(channel)
       IN  /\ reconciler' = [ reconciler EXCEPT
                                !.active = { [ source |-> "scanner",
                                               seq |-> channel[i].seq,
                                               batch |-> channel[i].batch,
                                               read |-> devices ] } ]
           /\ channel' = RemoveAt(channel, i)
    /\ last' = [ op |-> "begin" ]
    /\ UNCHANGED <<devices, events, published, snapshots, now, scan_interval,
                   passes, associations, stop_event, scanner>>

\* SnmpPresenceScanner.run with a non-empty poll result: the clients are
\* handed to ingest_snmp_clients, which starts a pass on them.
SnmpRun ==
    \E table \in { t \in ScannerTables : DOMAIN t # {} } :
        /\ scanner.variant = "process"
        /\ passes < MaxSnmpRuns
        /\ LockFree
        /\ passes' = passes + 1
        /\ reconciler' = [ reconciler EXCEPT
                             !.active =
                                { [ source |-> "snmp",
                                    seq |-> 0,
                                    batch |-> EnrichData(table,
                                                [ ip \in DOMAIN table |-> NoHost ]),
                                    read |-> devices ] } ]
        /\ last' = [ op |-> "begin" ]
        /\ UNCHANGED <<devices, events, published, snapshots, now,
                       scan_interval, associations, stop_event, scanner,
                       channel>>

\* The pass in progress writes its changes and ends.
EndPass ==
    \E p \in reconciler.active :
        LET r == ProcessPresence(p.read, events, p.batch, NoFail, now)
        IN  /\ devices' = r.dm
            /\ events' = r.evs
            /\ published' = r.pub
            /\ reconciler' = [ reconciler EXCEPT
                                 !.active = @ \ { p },
                                 !.done = IF p.source = "scanner"
                                          THEN Append(@, p.seq) ELSE @ ]
            /\ last' = [ op |-> "end", source |-> p.source, seq |-> p.seq,
                         read |-> p.read, pre |-> devices ]
            /\ UNCHANGED <<snapshots, now, scan_interval, passes, associations,
                           stop_event, scanner, channel>>

SpecScanner ==
    /\ InitScanner
    /\ [][
           \/ SetStop
           \/ LoopExit
           \/ ProcessCycle
           \/ ThreadCycle
           \/ ChunkCheck
           \/ ChunkNap
           \/ SleepTick
          ]_vars

\* The scanner process with the reconciler at the other end of the channel.
InitChannel ==
    /\ InitScanner
    /\ scanner.variant = "process"
    /\ scanner.interval <= ChunkThreshold

SpecChannel ==
    /\ InitChannel
    /\ [][
           \/ ProcessCycle
           \/ SleepTick
           \/ BeginPass
           \/ SnmpRun
           \/ EndPass
          ]_vars

\* C18: a failure of a collector in a cycle yields partial or empty data for
\* that cycle only and never propagates: the data of a cycle is a part of
\* the ARP table of that cycle, and the whole of it when nothing fails in
\* that cycle; the loop goes on and is left only when the stop signal is set.
CollectorFailureStaysInCycle ==
    /\ scanner.pc = "exited" => stop_event
    /\ last.op = "cycle" =>
          /\ DOMAIN last.got \subseteq DOMAIN last.table
          /\ \A ip \in DOMAIN last.got : last.got[ip] = last.table[ip]
          /\ BatchMacs(last.batch) = { last.got[ip] : ip \in DOMAIN last.got }
          /\ last.failure = "none" => last.got = last.table
          /\ last.sent => last.batch # <<>>

CollectorFailureStaysInCycleWitness ==
    /\ last.op = "cycle"
    /\ scanner.variant = "process"
    /\ scanner.cycles = 2
    /\ scanner.failures = 1
    /\ last.failure = "none"
    /\ Len(last.batch) = 2
    /\ Len(channel) = 1
    /\ channel[1] = [ seq |-> 2, batch |-> last.batch ]

\* C19 as stated: while the scan loop sleeps, a stop signal that has been set
\* is observed within one second.
StopSeenWithinOneSecond ==
    scanner.pc \in { "check", "nap", "sleep" } => scanner.unseen <= 1

\* C19 amended: a sleep of more than 5 seconds in the scanner process is cut
\* into one-second steps with a test of the stop signal before each, so the
\* signal is observed within one second; a shorter sleep of the scanner
\* process is slept in one piece, so the signal is observed within 5
\* seconds; the loop of PresenceMonitor sleeps its whole interval in one
\* piece and observes the signal within that interval.
StopSeenWithinSleepPiece ==
    /\ scanner.pc \in { "check", "nap" } => scanner.unseen <= 1
    /\ scanner.pc = "sleep" /\ scanner.variant = "process"
          => scanner.unseen <= ChunkThreshold
    /\ scanner.pc = "sleep" /\ scanner.variant = "thread"
          => scanner.unseen <= scanner.interval

StopSeenWithinSleepPieceWitness ==
    /\ scanner.variant = "process"
    /\ scanner.pc = "sleep"
    /\ stop_event
    /\ scanner.unseen = ChunkThreshold

\* C20: batches are reconciled one at a time in the order the scanner sent
\* them: no batch is reconciled before an earlier one, at most one pass
\* (whatever its source) is in progress, and a pass writes to the rows it
\* read.
BatchesOneAtATimeInOrder ==
    /\ Cardinality(reconciler.active) <= 1
    /\ \A i, j \in 1..Len(reconciler.done) :
          i < j => reconciler.done[i] < reconciler.done[j]
    /\ \A i \in 1..Len(channel) :
          /\ \A j \in 1..Len(reconciler.done) : reconciler.done[j] < channel[i].seq
          /\ \A p \in reconciler.active :
                p.source = "scanner" => p.seq < channel[i].seq
    /\ last.op = "end" => last.read = last.pre

BatchesOneAtATimeInOrderWitness ==
    /\ last.op = "begin"
    /\ passes > 0
    /\ reconciler.done = <<>>
    /\ \E p \in reconciler.active : p.source = "scanner" /\ p.seq = 1
    /\ Len(channel) = 1
    /\ channel[1].seq = 2

-----------------------------------------------------------------------------
(* Shutdown: the stop signal, the receive loop and the parent *)

\* thread.join(timeout=2.0), in seconds.
JoinTimeout == 2

\* Faulty variant: the parent waits for the scanner process without bound.
GraceExpiredNever(waited) == FALSE

\* The grace period the parent gives the scanner process, in seconds.
GraceSeconds == 2
GraceExpired(waited) == waited >= GraceSeconds

\* The ways in which the scanner process is gone.
ScannerGone == { "exited", "crashed", "terminated" }

\* A ping or a put that never returns: the scanner process hangs in a cycle.
ScannerHang ==
    /\ scanner.variant = "process"
    /\ scanner.pc = "loop"
    /\ ~ stop_event
    /\ scanner' = [ scanner EXCEPT !.pc = "hung" ]
    /\ last' = [ op |-> "hang" ]
    /\ UNCHANGED <<devices, events, published, snapshots, now, scan_interval,
                   passes, associations, stop_event, channel, reconciler>>

\* The scanner process dies: killed, or an exception outside the loop body.
ScannerCrash ==
    /\ scanner.variant = "process"
    /\ scanner.pc \in { "loop", "check", "nap", "sleep" }
    /\ scanner' = [ scanner EXCEPT !.pc = "crashed" ]
    /\ last' = [ op |-> "crash" ]
    /\ UNCHANGED <<devices, events, published, snapshots, now, scan_interval,
                   passes, associations, stop_event, channel, reconciler>>

\* Faulty variant: the poll blocks until a batch is there.
PollBlocksOnEmpty(q) == q # <<>>

\* The poll of the channel returns after a short wait, with or without a
\* batch.
PollReturns(q) == TRUE

\* The receive loop polls the channel and finds it empty: a short wait, then
\* the next turn of the loop.
PollEmpty ==
    /\ reconciler.loop = "polling"
    /\ reconciler.active = {}
    /\ ~ stop_event
    /\ channel = <<>>
    /\ PollReturns(channel)
    /\ last' = [ op |-> "poll_empty", pre |-> devices, evBefore |-> Len(events),
                 error |-> FALSE ]
    /\ published' = <<>>
    /\ UNCHANGED <<devices, events, snapshots, now, scan_interval, passes,
                   associations, stop_event, scanner, channel, reconciler>>

\* ThreadedService._run_loop: "while self.running and not
\* self._stop_event.is_set()" is false, the loop is left.
ReceiveLoopExit ==
    /\ reconciler.loop = "polling"
    /\ reconciler.active = {}
    /\ stop_event
    /\ reconciler' = [ reconciler EXCEPT !.loop = "stopped" ]
    /\ UNCHANGED <<devices, events, published, snapshots, now, scan_interval,
                   passes, last, associations, stop_event, scanner, channel>>

\* ThreadedService.stop up to the join: running = False, the stop signal is
\* set.
ParentStop ==
    /\ reconciler.parent = "running"
    /\ stop_event' = TRUE
    /\ reconciler' = [ reconciler EXCEPT !.parent = "joining", !.waited = 0 ]
    /\ UNCHANGED <<devices, events, published, snapshots, now, scan_interval,
                   passes, last, associations, scanner, channel>>

\* thread.join(timeout=2.0): a second passes, or the join returns because
\* the thread has ended or the timeout has run out; the parent then turns to
\* the scanner process.
ParentJoin ==
    /\ reconciler.parent = "joining"
    /\ reconciler' =
          IF reconciler.loop = "stopped" \/ reconciler.waited >= JoinTimeout
          THEN [ reconciler EXCEPT !.parent = "grace", !.waited = 0 ]
          ELSE [ reconciler EXCEPT !.waited = @ + 1 ]
    /\ UNCHANGED <<devices, events, published, snapshots, now, scan_interval,
                   passes, last, associations, stop_event, scanner, channel>>

\* The parent waits for the scanner process: a second passes, or the process
\* is gone, or the grace period has run out and the process is terminated.
ParentGrace ==
    /\ reconciler.parent = "grace"
    /\ IF scanner.pc \in ScannerGone
       THEN /\ reconciler' = [ reconciler EXCEPT !.parent = "done" ]
            /\ UNCHANGED scanner
       ELSE IF GraceExpired(reconciler.waited)
       THEN /\ reconciler' = [ reconciler EXCEPT !.parent = "done" ]
            /\ scanner' = [ scanner EXCEPT !.pc = "terminated" ]
       ELSE /\ reconciler' = [ reconciler EXCEPT !.waited = @ + 1 ]
            /\ UNCHANGED scanner
    /\ UNCHANGED <<devices, events, published, snapshots, now, scan_interval,
                   passes, last, associations, stop_event, channel>>

InitShutdown ==
    /\ InitScanner
    /\ scanner.variant = "process"

\* The scanner process (its cycles find one host and take no time), the
\* receive loop and the parent.
SpecShutdown ==
    /\ InitShutdown
    /\ [][
           \/ ProcessCycleOf({ t \in ScannerTables : DOMAIN t = { IPS[1] } },
                             { "none" }, { 0 })
           \/ ChunkCheck \/ ChunkNap \/ SleepTick \/ LoopExit
           \/ ScannerHang \/ ScannerCrash
           \/ BeginPass \/ EndPass \/ PollEmpty \/ ReceiveLoopExit
           \/ ParentStop \/ ParentJoin \/ ParentGrace
          ]_vars

\* The scanner process, the receive loop and the parent are each scheduled
\* again and again; a hung scanner takes no step.
FairShutdown ==
    /\ SpecShutdown
    /\ WF_vars(ChunkCheck \/ ChunkNap \/ SleepTick \/ LoopExit)
    /\ WF_vars(EndPass \/ ReceiveLoopExit)
    /\ WF_vars(ParentJoin \/ ParentGrace)

\* C21: once the stop signal is set, the scanner loop and the receive loop
\* both stop and the parent is done: the parent waits for the thread no
\* longer than the join timeout and for the scanner process no longer than
\* the grace period, after which it terminates a scanner that has not exited.
ShutdownCompletes ==
    /\ [](reconciler.parent = "joining" => reconciler.waited <= JoinTimeout)
    /\ [](reconciler.parent = "grace" => reconciler.waited <= GraceSeconds)
    /\ stop_event ~> ( /\ reconciler.parent = "done"
                       /\ scanner.pc \in ScannerGone
                       /\ reconciler.loop = "stopped" )

ShutdownCompletesWitness ==
    /\ reconciler.parent = "done"
    /\ scanner.pc = "terminated"
    /\ reconciler.loop = "stopped"
    /\ Len(reconciler.done) > 0

-----------------------------------------------------------------------------
(* Passes, registration, removal and the purge on one table *)

\* Registrations through the route stop at this row id.
MaxDeviceId == 2

\* Passes over an ARP table of at most one address, registrations while ids
\* are left, removals and purges.
SpecStored ==
    /\ Init
    /\ [][
           \/ \E arp_map \in { m \in ArpMaps : DOMAIN m \subseteq { IPS[1] } } :
                \E cache \in MdnsCaches(arp_map) :
                    \E fail \in (IF DOMAIN arp_map = {} THEN { NoFail } ELSE Fails) :
                        ScanLoopIteration(arp_map, cache, fail)
           \/ (NextId(devices) <= MaxDeviceId /\ RegisterDevice)
           \/ RemoveDevice
           \/ PurgePresenceSnapshots
          ]_vars

\* C23: no pass (with its correlation step) and no purge of snapshots
\* deletes a device row: only the removal route makes a stored device, or
\* its MAC address, disappear.
DevicesStayStored ==
    [][ last'.op # "remove" =>
          \A d \in DOMAIN devices :
              /\ d \in DOMAIN devices'
              /\ devices'[d].mac_address = devices[d].mac_address ]_vars

DevicesStayStoredWitness ==
    /\ last.op = "reconcile"
    /\ last.outcome = "committed"
    /\ passes = MaxPasses
    /\ DOMAIN last.pre # {}
    /\ \E d \in DOMAIN last.pre : last.pre[d].is_home /\ ~ devices[d].is_home

-----------------------------------------------------------------------------
(* A pass interleaved with registration requests *)

\* Faulty variant of the unique index: no insert is refused.
UniqueViolationNever(dm, mac) == FALSE

\* Device.mac_address is unique: the INSERT of a MAC address that a committed
\* row already holds raises IntegrityError at the flush.
UniqueViolation(dm, mac) == KnownMac(dm, mac)

ReconcilerIdle ==
    [ pc |-> "idle", device_map |-> <<>>, batch |-> <<>>, conflict |-> FALSE ]

InitRegistration ==
    /\ devices = <<>>
    /\ events = <<>>
    /\ published = <<>>
    /\ snapshots = {}
    /\ now = 0
    /\ scan_interval \in ScanIntervals
    /\ passes = 0
    /\ last = NoHistory
    /\ associations = {}
    /\ stop_event = FALSE
    /\ scanner = [ pc |-> "off" ]
    /\ channel = <<>>
    /\ reconciler = ReconcilerIdle

\* _process_presence, "1. Load Knowledge Base": the pass reads the rows that
\* are committed at this moment into device_map.
LoadDevices ==
    \E arp_map \in ArpMaps \ { <<>> } :
        \E cache \in MdnsCaches(arp_map) :
            /\ reconciler.pc = "idle"
            /\ passes < MaxPasses
            /\ reconciler' = [ pc |-> "loaded", device_map |-> devices,
                               batch |-> EnrichData(arp_map, cache),
                               conflict |-> FALSE ]
            /\ UNCHANGED <<devices, events, published, snapshots, now,
                           scan_interval, passes, last, associations,
                           stop_event, scanner, channel>>

\* The id the database gives to a row that the pass numbered after the rows
\* of device_map: rows committed since the load come first.
ShiftId(id, loaded, committed) ==
    IF id > loaded THEN id + (committed - loaded) ELSE id

\* _process_presence from the loop over the batch on, run over the device_map
\* loaded earlier, against the rows committed by now.  refused: the first
\* record of the batch whose MAC is not in device_map and whose INSERT the
\* unique index refuses; 0 if there is none.
FinishPass ==
    \E fail \in Fails \ { "load" } :
        LET device_map == reconciler.device_map
            batch == reconciler.batch
            loaded == Cardinality(DOMAIN device_map)
            committed == Cardinality(DOMAIN devices)
            refusals == { i \in 1..Len(batch) :
                            /\ ~ KnownMac(device_map, batch[i].mac)
                            /\ UniqueViolation(devices, batch[i].mac) }
            refused == IF refusals = {} THEN 0
                       ELSE CHOOSE i \in refusals : \A j \in refusals : i <= j
            t == now + scan_interval
        IN  /\ reconciler.pc = "loaded"
            /\ passes' = passes + 1
            /\ now' = t
            /\ UNCHANGED <<snapshots, scan_interval, associations,
                           stop_event, scanner, channel>>
            /\ IF refused # 0
               THEN LET s == ScanBatch(Session(device_map),
                                       SubSeq(batch, 1, refused - 1), 1,
                                       fail = "flush", t)
                    IN  /\ UNCHANGED <<devices, events>>
                        /\ published' = s.pub
                        /\ last' = History("reconcile", batch, "rolled_back", "none")
                        /\ reconciler' = [ ReconcilerIdle EXCEPT !.conflict = TRUE ]
               ELSE LET r == ProcessPresence(device_map, events, batch, fail, t)
                        ids == DOMAIN devices \cup
                                 { ShiftId(d, loaded, committed) : d \in DOMAIN r.dm }
                    IN  /\ devices' =
                              [ d \in ids |->
                                  IF d \in DOMAIN device_map THEN r.dm[d]
                                  ELSE IF d \in DOMAIN devices THEN devices[d]
                                  ELSE r.dm[d - (committed - loaded)] ]
                        /\ events' =
                              [ i \in 1..Len(r.evs) |->
                                  IF i > Len(events)
                                  THEN [ r.evs[i] EXCEPT !.device_id =
                                           ShiftId(@, loaded, committed) ]
                                  ELSE r.evs[i] ]
                        /\ published' =
                              [ i \in 1..Len(r.pub) |->
                                  [ r.pub[i] EXCEPT !.device_id =
                                      ShiftId(@, loaded, committed) ] ]
                        /\ last' = History("reconcile", batch, r.outcome, r.corr)
                        /\ reconciler' = ReconcilerIdle

\* The two halves of a pass, and POST /api/devices/ at any moment, also
\* between them.
SpecRegistration ==
    /\ InitRegistration
    /\ [][
           \/ LoadDevices
           \/ FinishPass
           \/ (RegisterDevice /\ UNCHANGED reconciler)
          ]_vars

\* C24: however passes and registration requests interleave, no two device
\* rows hold the same MAC address; a registration request for a known MAC
\* adds no row, and an accepted one adds one row with a MAC that was unknown.
MacsStayUnique ==
    /\ [](\A d, e \in DOMAIN devices :
            d # e => devices[d].mac_address # devices[e].mac_address)
    /\ [][ /\ (reconciler' = reconciler /\ last'.op = "register_conflict")
                => devices' = devices
           /\ (reconciler' = reconciler /\ last'.op = "register") =>
                \E d \in DOMAIN devices' \ DOMAIN devices :
                    /\ ~ KnownMac(devices, devices'[d].mac_address)
                    /\ DOMAIN devices' = DOMAIN devices \cup { d } ]_vars

MacsStayUniqueWitness ==
    /\ reconciler.conflict
    /\ last.op = "reconcile"
    /\ last.outcome = "rolled_back"
    /\ \E d \in DOMAIN devices : devices[d].mac_address \in last.macs
    /\ Cardinality(DOMAIN devices) = Cardinality(MACS)

-----------------------------------------------------------------------------
(* SNMP walks of the ARP table *)

MaxResponses == 3

\* What the agent answers to the successive requests of one walk: a variable
\* binding (address, MAC), an error indication (timeout), or an error status.
WalkErrors == [ error : { "errorIndication", "errorStatus" } ]

WalkResponses ==
    LET var_binds == { [ ip |-> IPS[1], mac |-> <<"0", "8">> ],
                       [ ip |-> IPS[2], mac |-> <<"A", "A">> ] }
    IN  UNION { [ 1..n -> var_binds \cup WalkErrors ] : n \in 0..MaxResponses }

\* What a walk returns: a value, or Python's None.
Returned(value) == [ none |-> FALSE, value |-> value ]

None == [ none |-> TRUE ]

\* SnmpPresenceScanner._walk_oid: the loop breaks at the first error and the
\* results gathered so far are returned.
RECURSIVE WalkOid(_, _, _)
WalkOid(responses, i, results) ==
    IF i > Len(responses) THEN results
    ELSE IF responses[i] \in WalkErrors THEN results
    ELSE WalkOid(responses, i + 1,
                 [ ip \in DOMAIN results \cup { responses[i].ip } |->
                     IF ip = responses[i].ip THEN responses[i].mac
                     ELSE results[ip] ])

\* PresenceMonitor._get_arp_table_async: an error response is skipped with
\* "continue" and the loop goes on with whatever the iterator yields next.
RECURSIVE GetArpTableAsync(_, _, _)
GetArpTableAsync(responses, i, arp_map) ==
    IF i > Len(responses) THEN arp_map
    ELSE IF responses[i] \in WalkErrors
    THEN GetArpTableAsync(responses, i + 1, arp_map)
    ELSE GetArpTableAsync(responses, i + 1,
                 [ ip \in DOMAIN arp_map \cup { responses[i].ip } |->
                     IF ip = responses[i].ip THEN responses[i].mac
                     ELSE arp_map[ip] ])

\* motion_sensor_app PresenceMonitor.get_active_macs: the first error makes
\* the function return None; otherwise the set of MAC addresses.
RECURSIVE GetActiveMacs(_, _, _)
GetActiveMacs(responses, i, active_macs) ==
    IF i > Len(responses) THEN Returned(active_macs)
    ELSE IF responses[i] \in WalkErrors THEN None
    ELSE GetActiveMacs(responses, i + 1, active_macs \cup { responses[i].mac })

InitWalk ==
    /\ devices = <<>>
    /\ events = <<>>
    /\ published = <<>>
    /\ snapshots = {}
    /\ now = 0
    /\ scan_interval \in ScanIntervals
    /\ passes = 0
    /\ last = NoHistory
    /\ associations = {}
    /\ stop_event = FALSE
    /\ scanner = [ walker |-> "none", cycles |-> 0, walks |-> 0,
                   responses |-> <<>>, result |-> None ]
    /\ channel = <<>>
    /\ reconciler = [ pc |-> "off" ]

\* One cycle of SnmpPresenceScanner.run: _poll_clients walks the MAC column
\* once.
SnmpWalkCycle ==
    \E responses \in WalkResponses :
        /\ scanner.cycles < MaxCycles
        /\ scanner' = [ walker |-> "_walk_oid", cycles |-> scanner.cycles + 1,
                        walks |-> 1, responses |-> responses,
                        result |-> Returned(WalkOid(responses, 1, <<>>)) ]
        /\ UNCHANGED <<devices, events, published, snapshots, now,
                       scan_interval, passes, last, associations, stop_event,
                       channel, reconciler>>

\* One cycle of PresenceMonitor._scan_loop: _scan_network walks the table
\* once.
ArpTableCycle ==
    \E responses \in WalkResponses :
        /\ scanner.cycles < MaxCycles
        /\ scanner' = [ walker |-> "_get_arp_table_async",
                        cycles |-> scanner.cycles + 1,
                        walks |-> 1, responses |-> responses,
                        result |-> Returned(GetArpTableAsync(responses, 1, <<>>)) ]
        /\ UNCHANGED <<devices, events, published, snapshots, now,
                       scan_interval, passes, last, associations, stop_event,
                       channel, reconciler>>

\* One cycle of the _scan_loop of motion_sensor_app: get_active_macs is
\* called once.
ActiveMacsCycle ==
    \E responses \in WalkResponses :
        /\ scanner.cycles < MaxCycles
        /\ scanner' = [ walker |-> "get_active_macs",
                        cycles |-> scanner.cycles + 1,
                        walks |-> 1, responses |-> responses,
                        result |-> GetActiveMacs(responses, 1, {}) ]
        /\ UNCHANGED <<devices, events, published, snapshots, now,
                       scan_interval, passes, last, associations, stop_event,
                       channel, reconciler>>

NextWalk == SnmpWalkCycle \/ ArpTableCycle \/ ActiveMacsCycle

SpecWalk == InitWalk /\ [][NextWalk]_vars

\* The entries answered before the first error of a walk.
FirstError(responses) ==
    CHOOSE i \in 1..Len(responses) :
        /\ responses[i] \in WalkErrors
        /\ \A j \in 1..(i - 1) : responses[j] \notin WalkErrors

ErrorMidWalk ==
    /\ scanner.cycles > 0
    /\ \E i \in 1..Len(scanner.responses) : scanner.responses[i] \in WalkErrors

EntriesBeforeError ==
    WalkOid(SubSeq(scanner.responses, 1, FirstError(scanner.responses) - 1),
            1, <<>>)

MacsOf(table) == { table[ip] : ip \in DOMAIN table }

\* C25: a walk that meets an SNMP error stops there and returns the entries
\* collected before the error; the cycle makes no second attempt, and the
\* next cycle walks again.
WalkReturnsEntriesBeforeError ==
    ErrorMidWalk =>
        /\ ~ scanner.result.none
        /\ IF scanner.walker = "get_active_macs"
           THEN scanner.result.value = MacsOf(EntriesBeforeError)
           ELSE scanner.result.value = EntriesBeforeError
        /\ scanner.walks = 1
        /\ scanner.cycles < MaxCycles => ENABLED NextWalk

-----------------------------------------------------------------------------
(* The IP history of a device *)

\* Faulty variant of the cap: the history is never trimmed.
CapHistoryNever(history) == history

IpHistoryCap == 50

\* The newest IpHistoryCap entries.
CapHistory(history) ==
    IF Len(history) > IpHistoryCap
    THEN SubSeq(history, Len(history) - IpHistoryCap + 1, Len(history))
    ELSE history

\* One stored device that was seen n times before, at one address.
InitIpHistory ==
    /\ \E ip \in IpSet, n \in 0..IpHistoryCap :
           devices = << [ mac_address |-> <<"0", "8">>, is_home |-> TRUE,
                          last_ip |-> ip,
                          ip_history |-> [ i \in 1..n |->
                                             [ ip |-> ip, timestamp |-> 0 ] ] ] >>
    /\ events = <<>>
    /\ published = <<>>
    /\ snapshots = {}
    /\ now = 0
    /\ scan_interval \in ScanIntervals
    /\ passes = 0
    /\ last = [ op |-> "none" ]
    /\ associations = {}
    /\ ProcIdle

\* A pass whose batch holds the stored devices, each at some address: the
\* metadata update adds one {ip, timestamp} entry to ip_history, which is
\* then capped.
MetadataPass ==
    \E seen_at \in [ DOMAIN devices -> IpSet ] :
        /\ passes < MaxPasses
        /\ passes' = passes + 1
        /\ now' = now + scan_interval
        /\ devices' =
              [ d \in DOMAIN devices |->
                  [ devices[d] EXCEPT
                      !.last_ip = seen_at[d],
                      !.ip_history =
                          CapHistory(Append(@, [ ip |-> seen_at[d],
                                                 timestamp |-> now' ])) ] ]
        /\ last' = [ op |-> "metadata",
                     before |-> [ d \in DOMAIN devices |->
                                    Len(devices[d].ip_history) ] ]
        /\ published' = <<>>
        /\ UNCHANGED <<events, snapshots, scan_interval, associations, procVars>>

SpecIpHistory == InitIpHistory /\ [][MetadataPass]_vars

-----------------------------------------------------------------------------
(* The service manager *)

\* create_app registers SystemMonitor and HardwareManager always, the
\* presence monitor unless DISABLE_PRESENCE_MONITOR, and SnmpPresenceScanner
\* if ENABLE_SNMP_PRESENCE.
Registrations ==
    { <<"SystemMonitor", "HardwareManager">>,
      <<"SystemMonitor", "HardwareManager", "PresenceMonitor">>,
      <<"SystemMonitor", "HardwareManager", "SnmpPresenceScanner">>,
      <<"SystemMonitor", "HardwareManager", "PresenceMonitor",
        "SnmpPresenceScanner">> }

Names(services) == { services[i] : i \in 1..Len(services) }

\* reversed(list(...))
Reversed(services) ==
    [ i \in 1..Len(services) |-> services[Len(services) + 1 - i] ]

\* Faulty variant of the loop of start_all: no try/except, the first start
\* that raises ends the loop.
RECURSIVE StartEachUncaught(_, _, _, _)
StartEachUncaught(services, i, raising, r) ==
    IF i > Len(services) THEN r
    ELSE IF services[i] \in raising
    THEN [ r EXCEPT !.attempted = Append(@, services[i]) ]
    ELSE StartEachUncaught(services, i + 1, raising,
             [ running |-> r.running \cup { services[i] },
               attempted |-> Append(r.attempted, services[i]) ])

\* The loop of start_all from service i on: service.start() sets running
\* unless it raises; an exception is logged and the loop goes on.
RECURSIVE StartEach(_, _, _, _)
StartEach(services, i, raising, r) ==
    IF i > Len(services) THEN r
    ELSE StartEach(services, i + 1, raising,
             [ running |-> IF services[i] \in raising THEN r.running
                           ELSE r.running \cup { services[i] },
               attempted |-> Append(r.attempted, services[i]) ])

\* The loop of stop_all over the reversed list: service.stop() clears
\* running; one that raises may or may not have cleared it before
\* (cleared), and the loop goes on.
RECURSIVE StopEach(_, _, _, _, _)
StopEach(services, i, raising, cleared, r) ==
    IF i > Len(services) THEN r
    ELSE StopEach(services, i + 1, raising, cleared,
             [ running |-> IF services[i] \in raising \ cleared THEN r.running
                           ELSE r.running \ { services[i] },
               attempted |-> Append(r.attempted, services[i]) ])

\* ServiceManager.start_all
StartAllOf(manager, raising) ==
    IF manager._is_active
    THEN [ manager |-> manager, attempted |-> <<>> ]
    ELSE LET r == StartEach(manager._services, 1, raising,
                            [ running |-> manager.running, attempted |-> <<>> ])
         IN  [ manager |-> [ manager EXCEPT !._is_active = TRUE,
                                            !.running = r.running ],
               attempted |-> r.attempted ]

\* ServiceManager.stop_all
StopAllOf(manager, raising, cleared) ==
    LET r == StopEach(Reversed(manager._services), 1, raising, cleared,
                      [ running |-> manager.running, attempted |-> <<>> ])
    IN  [ manager |-> [ manager EXCEPT !._is_active = FALSE,
                                       !.running = r.running ],
          attempted |-> r.attempted ]

\* The /api/health route; health_data is BaseService.health of every
\* service, by name.
HealthResponse(manager) ==
    LET health_data ==
            [ name \in Names(manager._services) |->
                [ name |-> name, running |-> name \in manager.running ] ]
        total == Cardinality(DOMAIN health_data)
        running == Cardinality({ n \in DOMAIN health_data : health_data[n].running })
        status == IF running = total THEN "healthy"
                  ELSE IF running > 0 THEN "degraded"
                  ELSE "unhealthy"
    IN  [ code |-> 200,
          body |-> [ status |-> status,
                     timestamp |-> now,
                     services |-> health_data,
                     summary |-> [ total |-> total, running |-> running,
                                   stopped |-> total - running ] ] ]

\* The manager is kept in the variable reconciler: its registry in
\* registration order, its flag, the running flags of the services, and
\* app._services_started.
InitServices ==
    /\ devices = <<>>
    /\ events = <<>>
    /\ published = <<>>
    /\ snapshots = {}
    /\ now = 0
    /\ scan_interval \in ScanIntervals
    /\ passes = 0
    /\ last = [ op |-> "none" ]
    /\ associations = {}
    /\ stop_event = FALSE
    /\ scanner = [ pc |-> "off" ]
    /\ channel = <<>>
    /\ \E services \in Registrations :
           reconciler = [ _services |-> services, _is_active |-> FALSE,
                          running |-> {}, _services_started |-> FALSE ]

Called(op, r) ==
    [ op |-> op, attempted |-> r.attempted, before |-> reconciler ]

\* run.py: app.service_manager.start_all()
StartAll ==
    \E raising \in SUBSET Names(reconciler._services) :
        LET r == StartAllOf(reconciler, raising)
        IN  /\ reconciler' = r.manager
            /\ last' = Called("start_all", r) @@ [ raising |-> raising ]
            /\ UNCHANGED <<devices, events, published, snapshots, now,
                           scan_interval, passes, associations, stop_event,
                           scanner, channel>>

\* run.py, atexit: app.service_manager.stop_all()
StopAll ==
    \E raising \in SUBSET Names(reconciler._services) :
        \E cleared \in SUBSET raising :
            LET r == StopAllOf(reconciler, raising, cleared)
            IN  /\ reconciler' = r.manager
                /\ last' = Called("stop_all", r) @@ [ raising |-> raising ]
                /\ UNCHANGED <<devices, events, published, snapshots, now,
                               scan_interval, passes, associations, stop_event,
                               scanner, channel>>

\* app.start_services (gunicorn post_fork), outside TESTING.
StartServices ==
    /\ ~ reconciler._services_started
    /\ \E raising \in SUBSET Names(reconciler._services) :
        LET r == StartAllOf(reconciler, raising)
        IN  /\ reconciler' = [ r.manager EXCEPT !._services_started = TRUE ]
            /\ last' = Called("start_all", r) @@ [ raising |-> raising ]
            /\ UNCHANGED <<devices, events, published, snapshots, now,
                           scan_interval, passes, associations, stop_event,
                           scanner, channel>>

\* app.stop_services (gunicorn worker_exit).
StopServices ==
    /\ reconciler._services_started
    /\ \E raising \in SUBSET Names(reconciler._services) :
        \E cleared \in SUBSET raising :
            LET r == StopAllOf(reconciler, raising, cleared)
            IN  /\ reconciler' = [ r.manager EXCEPT !._services_started = FALSE ]
                /\ last' = Called("stop_all", r) @@ [ raising |-> raising ]
                /\ UNCHANGED <<devices, events, published, snapshots, now,
                               scan_interval, passes, associations, stop_event,
                               scanner, channel>>

\* GET /api/health
HealthCheck ==
    /\ last' = [ op |-> "health", response |-> HealthResponse(reconciler) ]
    /\ UNCHANGED reconciler
    /\ UNCHANGED <<devices, events, published, snapshots, now,
                   scan_interval, passes, associations, stop_event,
                   scanner, channel>>

SpecServices ==
    /\ InitServices
    /\ [][ StartAll \/ StopAll \/ StartServices \/ StopServices \/ HealthCheck ]_vars

AllRunning ==
    Names(reconciler._services) \subseteq reconciler.running

NoneRunning ==
    Names(reconciler._services) \cap reconciler.running = {}

\* C27: the health check answers 200 when every service is running and 503
\* otherwise, always with the fields status and services; status is healthy
\* exactly when every registered service is running, degraded when some but
\* not all are, unhealthy when none is.
HealthFollowsServices ==
    last.op = "health" =>
        LET response == last.response IN
        /\ { "status", "services" } \subseteq DOMAIN response.body
        /\ response.body.status = "healthy" <=> AllRunning
        /\ response.body.status = "unhealthy" <=> NoneRunning
        /\ response.body.status = "degraded" <=> (~ AllRunning /\ ~ NoneRunning)
        /\ response.code \in { 200, 503 }
        /\ response.code = 200 <=> response.body.status = "healthy"

\* C28: start_all starts the services in registration order and stop_all
\* stops them in reverse registration order; a start_all on an active
\* manager starts nothing; a start or a stop that raises does not keep the
\* other services from being started or stopped.
ServicesInOrder ==
    /\ (last.op = "start_all" /\ last.before._is_active) =>
           /\ last.attempted = <<>>
           /\ reconciler.running = last.before.running
    /\ (last.op = "start_all" /\ ~ last.before._is_active) =>
           /\ last.attempted = reconciler._services
           /\ Names(reconciler._services) \ last.raising \subseteq reconciler.running
    /\ last.op = "stop_all" =>
           /\ last.attempted = Reversed(reconciler._services)
           /\ reconciler.running \subseteq last.raising

ServicesInOrderWitness ==
    /\ last.op = "stop_all"
    /\ Len(reconciler._services) = 4
    /\ last.before.running = { "SystemMonitor", "PresenceMonitor" }
    /\ last.raising = { "PresenceMonitor" }
    /\ reconciler.running = { "PresenceMonitor" }

-----------------------------------------------------------------------------
(* Which devices the correlation step of a pass touches *)

\* What the correlation step may set: the link, the name, the tracking flag.
CorrelatedFields(device) ==
    << device.linked_to_device_id, device.name, device.track_presence >>

\* C29: the correlation step of a pass is applied only to devices that
\* became home in that pass and have a randomized MAC: a device that was
\* already home, or whose MAC is not randomized, keeps its link, its name and
\* its track_presence (a device registered by the pass keeps those of its
\* registration).
CorrelatorOnlyForRandomizedArrivals ==
    (last.op = "reconcile" /\ last.outcome = "committed") =>
        \A d \in DOMAIN devices :
            IF d \in DOMAIN last.pre
            THEN (last.pre[d].is_home \/ ~ devices[d].is_randomized_mac) =>
                     CorrelatedFields(devices[d]) = CorrelatedFields(last.pre[d])
            ELSE ~ devices[d].is_randomized_mac =>
                     /\ devices[d].linked_to_device_id = NoLink
                     /\ ~ NameHasUnknown(devices[d].name) \/ devices[d].name = "Unknown"
                     /\ devices[d].name # "OwnerAuto"
                     /\ ~ devices[d].track_presence

-----------------------------------------------------------------------------
(* Batches of the SNMP client poll and the authoritative flag *)

\* Faulty variant: absence from the batch means departure whatever the flag.
DeparturesAlways(s, macs, authoritative, t) ==
    Departures(s, DOMAIN s.dm, macs, t)

\* Step 3 of a pass over the batch of a technique: the devices absent from
\* the batch leave only if the technique is authoritative.
DeparturesIfAuthoritative(s, macs, authoritative, t) ==
    IF authoritative THEN Departures(s, DOMAIN s.dm, macs, t) ELSE s

\* ingest_snmp_clients: the pass over the clients of one SNMP poll.
IngestPresence(dm, evs, clients, authoritative, t) ==
    LET s1 == ScanBatch(Session(dm), clients, 1, FALSE, t)
        s2 == DeparturesIfAuthoritative(s1, BatchMacs(clients), authoritative, t)
        evs2 == evs \o s2.ev
    IN  [ dm |-> IF s2.arrivals = <<>> THEN s2.dm
                 ELSE AnalyzeCorrelations(s2.dm, evs2, s2.arrivals, t),
          evs |-> evs2, pub |-> s2.pub ]

\* Config.SNMP_AUTHORITATIVE is kept in the variable scanner.
InitIngest ==
    /\ devices = <<>>
    /\ events = <<>>
    /\ published = <<>>
    /\ snapshots = {}
    /\ now = 0
    /\ scan_interval \in ScanIntervals
    /\ passes = 0
    /\ last = NoHistory
    /\ associations = {}
    /\ stop_event = FALSE
    /\ scanner \in [ SNMP_AUTHORITATIVE : BOOLEAN ]
    /\ channel = <<>>
    /\ reconciler = [ pc |-> "off" ]

\* SnmpPresenceScanner.run: a poll that returns clients hands them to
\* ingest_snmp_clients; an empty poll returns before.
SnmpPresenceRun ==
    \E arp_map \in ArpMaps :
        \E cache \in MdnsCaches(arp_map) :
            LET clients == EnrichData(arp_map, cache)
                r == IngestPresence(devices, events, clients,
                                    scanner.SNMP_AUTHORITATIVE, now')
            IN  /\ passes < MaxPasses
                /\ passes' = passes + 1
                /\ now' = now + scan_interval
                /\ UNCHANGED <<snapshots, scan_interval, associations, procVars>>
                /\ IF clients = <<>>
                   THEN /\ UNCHANGED <<devices, events>>
                        /\ published' = <<>>
                        /\ last' = History("snmp_empty", <<>>, "none", "none")
                   ELSE /\ devices' = r.dm
                        /\ events' = r.evs
                        /\ published' = r.pub
                        /\ last' = [ History("ingest", clients, "committed", "none")
                                       EXCEPT !.pre = devices ]

\* The SNMP poll next to the ARP scan of the presence monitor (when nothing
\* fails).
SpecIngest ==
    /\ InitIngest
    /\ [][
           \/ SnmpPresenceRun
           \/ \E arp_map \in ArpMaps :
                \E cache \in MdnsCaches(arp_map) :
                    ScanLoopIteration(arp_map, cache, NoFail)
          ]_vars

HomeButAbsent(d) ==
    /\ d \in DOMAIN last.pre
    /\ last.pre[d].is_home
    /\ last.pre[d].mac_address \notin last.macs

NoLeftEventSince(d, before) ==
    \A i \in (before + 1)..Len(events) :
        ~ (events[i].device_id = d /\ events[i].event_type = "left")

\* C30: a home device missing from the batch of the SNMP poll leaves only
\* if SNMP is marked authoritative; with the flag off it stays home and no
\* 'left' event is logged for it.
AbsenceNeedsAuthority ==
    last.op = "ingest" =>
        \A d \in DOMAIN devices :
            HomeButAbsent(d) =>
                IF scanner.SNMP_AUTHORITATIVE
                THEN ~ devices[d].is_home
                ELSE devices[d].is_home /\ NoLeftEventSince(d, last.evBefore)

AbsenceNeedsAuthorityWitness ==
    /\ last.op = "ingest"
    /\ ~ scanner.SNMP_AUTHORITATIVE
    /\ \E d \in DOMAIN devices :
        /\ HomeButAbsent(d)
        /\ devices[d].track_presence
        /\ devices[d].is_home
    /\ \E d \in DOMAIN devices : d \notin DOMAIN last.pre

-----------------------------------------------------------------------------
(* Threaded services *)

MaxThreads == 2     \* worker threads one service creates
MaxRunCalls == 2    \* calls of run() one worker makes

\* A handler that lets every exception of run() out of the loop.
AfterRunUncaught(outcome) ==
    IF outcome = "raised" THEN "exited" ELSE "interval_wait"

\* _run_loop, after run(): an exception is logged and followed by
\* _stop_event.wait(5.0); both paths then reach _stop_event.wait(interval).
AfterRun(outcome) ==
    IF outcome = "raised" THEN "error_wait" ELSE "interval_wait"

\* A stop that does not look at self.running.
StopServiceUnguarded(service, stop_set) ==
    [ service |-> [ service EXCEPT !.running = FALSE,
                                   !.pc = IF service._thread # 0
                                          THEN "joining" ELSE "idle" ],
      stop_set |-> TRUE ]

\* ThreadedService.stop up to the join.
StopService(service, stop_set) ==
    IF ~ service.running
    THEN [ service |-> service, stop_set |-> stop_set ]
    ELSE [ service |-> [ service EXCEPT !.running = FALSE,
                                        !.pc = IF service._thread # 0
                                               THEN "joining" ELSE "idle" ],
           stop_set |-> TRUE ]

\* One service is kept in the variable reconciler (its running flag, the
\* index of its _thread, and where its caller is), its _stop_event in
\* stop_event, and the threads it has created in channel.
InitThreaded ==
    /\ devices = <<>>
    /\ events = <<>>
    /\ published = <<>>
    /\ snapshots = {}
    /\ now = 0
    /\ scan_interval \in ScanIntervals
    /\ passes = 0
    /\ last = [ op |-> "none" ]
    /\ associations = {}
    /\ stop_event = FALSE
    /\ scanner = [ pc |-> "off" ]
    /\ channel = <<>>
    /\ reconciler = [ running |-> FALSE, _thread |-> 0, pc |-> "idle" ]

\* ThreadedService.start
StartService ==
    /\ reconciler.pc = "idle"
    /\ IF reconciler.running
       THEN UNCHANGED <<reconciler, stop_event, channel>>
       ELSE /\ Len(channel) < MaxThreads
            /\ reconciler' = [ reconciler EXCEPT !.running = TRUE,
                                                 !._thread = Len(channel) + 1 ]
            /\ stop_event' = FALSE
            /\ channel' = Append(channel, [ pc |-> "test", calls |-> 0,
                                            raised |-> FALSE ])
    /\ last' = [ op |-> "start", was_running |-> reconciler.running ]
    /\ UNCHANGED <<devices, events, published, snapshots, now, scan_interval,
                   passes, associations, scanner>>

\* ThreadedService.stop: the early return, or the flags and the start of
\* the join.
StopCall ==
    /\ reconciler.pc = "idle"
    /\ LET r == StopService(reconciler, stop_event)
       IN  /\ reconciler' = r.service
           /\ stop_event' = r.stop_set
    /\ last' = [ op |-> "stop", was_running |-> reconciler.running ]
    /\ UNCHANGED <<devices, events, published, snapshots, now, scan_interval,
                   passes, associations, scanner, channel>>

\* self._thread.join(timeout=2.0) returns because the worker has ended, or
\* because a run() in progress outlasts the timeout; the waits of the loop
\* return at once when the event is set.
JoinReturns ==
    /\ reconciler.pc = "joining"
    /\ channel[reconciler._thread].pc \in { "exited", "run" }
    /\ reconciler' = [ reconciler EXCEPT !.pc = "idle" ]
    /\ last' = [ op |-> "joined",
                 is_alive |-> channel[reconciler._thread].pc # "exited" ]
    /\ UNCHANGED <<devices, events, published, snapshots, now, scan_interval,
                   passes, associations, scanner, channel, stop_event>>

\* _run_loop: the loop condition, then the call of run() or the end of the
\* thread.
LoopTest ==
    \E w \in DOMAIN channel :
        /\ channel[w].pc = "test"
        /\ IF reconciler.running /\ ~ stop_event
           THEN /\ channel[w].calls < MaxRunCalls
                /\ channel' = [ channel EXCEPT ![w].pc = "run",
                                               ![w].calls = @ + 1 ]
           ELSE channel' = [ channel EXCEPT ![w].pc = "exited" ]
        /\ UNCHANGED <<devices, events, published, snapshots, now,
                       scan_interval, passes, last, associations, scanner,
                       reconciler, stop_event>>

\* _run_loop: run() returns or raises.
RunEnds ==
    \E w \in DOMAIN channel :
        \E outcome \in { "returned", "raised" } :
            /\ channel[w].pc = "run"
            /\ channel' = [ channel EXCEPT
                                ![w].pc = AfterRun(outcome),
                                ![w].raised = @ \/ outcome = "raised" ]
            /\ UNCHANGED <<devices, events, published, snapshots, now,
                           scan_interval, passes, last, associations, scanner,
                           reconciler, stop_event>>

\* _run_loop: self._stop_event.wait(5.0) and self._stop_event.wait(interval)
\* return, on the event or on the timeout.
WaitReturns ==
    \E w \in DOMAIN channel :
        /\ channel[w].pc \in { "error_wait", "interval_wait" }
        /\ channel' = [ channel EXCEPT
                            ![w].pc = IF @ = "error_wait"
                                      THEN "interval_wait" ELSE "test" ]
        /\ UNCHANGED <<devices, events, published, snapshots, now,
                       scan_interval, passes, last, associations, scanner,
                       reconciler, stop_event>>

SpecThreaded ==
    /\ InitThreaded
    /\ [][ StartService \/ StopCall \/ JoinReturns
           \/ LoopTest \/ RunEnds \/ WaitReturns ]_vars

\* C31: an exception of run() does not end the worker: after run() the
\* worker waits and tests the loop condition again, it calls run() only from
\* a test that found running set and the stop event clear, and a test that
\* finds running cleared or the stop event set ends it; nothing else does.
RunLoopSurvivesErrors ==
    [][ \A w \in DOMAIN channel :
          LET pc == channel[w].pc
              pc2 == channel'[w].pc
          IN  /\ (pc = "run" /\ pc2 # pc) => pc2 \in { "error_wait", "interval_wait" }
              /\ (pc = "error_wait" /\ pc2 # pc) => pc2 = "interval_wait"
              /\ (pc = "interval_wait" /\ pc2 # pc) => pc2 = "test"
              /\ (pc # "run" /\ pc2 = "run") =>
                     pc = "test" /\ reconciler.running /\ ~ stop_event
              /\ (pc # "exited" /\ pc2 = "exited") =>
                     pc = "test" /\ (~ reconciler.running \/ stop_event)
              /\ (pc = "test" /\ pc2 # pc
                    /\ (~ reconciler.running \/ stop_event)) => pc2 = "exited"
              /\ pc = "exited" => pc2 = "exited" ]_vars

RunLoopSurvivesErrorsWitness ==
    \E w \in DOMAIN channel :
        /\ channel[w].raised
        /\ channel[w].calls = MaxRunCalls
        /\ channel[w].pc = "exited"
        /\ ~ reconciler.running

\* C32: stop is idempotent: a stop leaves the service not running with the
\* stop event set if it was running, and a stop of a service that is not
\* running changes nothing, so that a second stop does what one did.
StopIsIdempotent ==
    [][ StopCall =>
          /\ ~ reconciler'.running
          /\ reconciler.running => stop_event'
          /\ ~ reconciler.running =>
                 /\ reconciler' = reconciler
                 /\ stop_event' = stop_event
                 /\ channel' = channel ]_vars

StopIsIdempotentWitness ==
    /\ last.op = "stop"
    /\ ~ last.was_running
    /\ reconciler._thread # 0
    /\ stop_event
    /\ channel[reconciler._thread].pc = "exited"

\* C33: at most one worker of a service is inside run() at any time.
OneWorkerInRun ==
    Cardinality({ w \in DOMAIN channel : channel[w].pc = "run" }) <= 1

-----------------------------------------------------------------------------
(* The event bus *)

MaxEmits == 3         \* messages published
MaxSubscribers == 2   \* clients that ever subscribe

QueueMaxSize == 50    \* queue.Queue(maxsize=50)

\* A handler of queue.Full that treats a slow client as a dead one.
OnFullUnsubscribe(subscribers, i) ==
    [ j \in 1 .. Len(subscribers) - 1 |->
        IF j < i THEN subscribers[j] ELSE subscribers[j + 1] ]

\* except queue.Full: a warning, and the client stays.
OnFull(subscribers, i) ==
    subscribers

\* EventBus.emit, the loop over self.subscribers[:]: copy[i] is the i-th
\* queue of the copy, subscribers the list as it is by now.
RECURSIVE PutToEach(_, _, _, _)
PutToEach(copy, subscribers, i, msg) ==
    IF i > Len(copy) THEN subscribers
    ELSE LET at == CHOOSE j \in DOMAIN subscribers :
                       subscribers[j].id = copy[i].id
         IN  IF Len(copy[i].q) < QueueMaxSize
             THEN PutToEach(copy,
                            [ subscribers EXCEPT ![at].q = Append(@, msg) ],
                            i + 1, msg)
             ELSE PutToEach(copy, OnFull(subscribers, at), i + 1, msg)

\* The subscribers are kept in the variable channel, in the order of
\* self.subscribers, and the number of messages published in passes.  The
\* queue of the first subscriber is empty, one short of full, or full of
\* earlier messages.
InitBus ==
    /\ devices = <<>>
    /\ events = <<>>
    /\ published = <<>>
    /\ snapshots = {}
    /\ now = 0
    /\ scan_interval \in ScanIntervals
    /\ passes = 0
    /\ last = [ op |-> "none" ]
    /\ associations = {}
    /\ stop_event = FALSE
    /\ scanner = [ pc |-> "off" ]
    /\ reconciler = [ clients |-> 1 ]
    /\ \E fill \in { 0, QueueMaxSize - 1, QueueMaxSize } :
           channel = << [ id |-> 1, q |-> [ k \in 1 .. fill |-> 0 ] ] >>

\* stream: q = bus.subscribe()
Subscribe ==
    /\ reconciler.clients < MaxSubscribers
    /\ reconciler' = [ clients |-> reconciler.clients + 1 ]
    /\ channel' = Append(channel, [ id |-> reconciler.clients + 1, q |-> <<>> ])
    /\ last' = [ op |-> "subscribe" ]
    /\ UNCHANGED <<devices, events, published, snapshots, now, scan_interval,
                   passes, associations, scanner, stop_event>>

\* stream, on GeneratorExit: bus.unsubscribe(q)
Unsubscribe ==
    \E i \in DOMAIN channel :
        /\ channel' = [ j \in 1 .. Len(channel) - 1 |->
                          IF j < i THEN channel[j] ELSE channel[j + 1] ]
        /\ last' = [ op |-> "unsubscribe" ]
        /\ UNCHANGED <<devices, events, published, snapshots, now,
                       scan_interval, passes, associations, scanner,
                       stop_event, reconciler>>

\* stream: msg = q.get()
StreamGet ==
    \E i \in DOMAIN channel :
        /\ channel[i].q # <<>>
        /\ channel' = [ channel EXCEPT ![i].q = Tail(@) ]
        /\ last' = [ op |-> "get" ]
        /\ UNCHANGED <<devices, events, published, snapshots, now,
                       scan_interval, passes, associations, scanner,
                       stop_event, reconciler>>

\* bus.emit(event_type, data)
BusEmit ==
    /\ passes < MaxEmits
    /\ passes' = passes + 1
    /\ channel' = PutToEach(channel, channel, 1, passes + 1)
    /\ last' = [ op |-> "emit", msg |-> passes + 1, before |-> channel ]
    /\ UNCHANGED <<devices, events, published, snapshots, now, scan_interval,
                   associations, scanner, stop_event, reconciler>>

SpecBus ==
    /\ InitBus
    /\ [][ Subscribe \/ Unsubscribe \/ StreamGet \/ BusEmit ]_vars

\* C34: publishing never blocks and never removes a subscriber: a message
\* can be published whatever the queues hold; afterwards the subscribers
\* are those of before, a subscriber whose queue was full has its queue
\* unchanged, and every other subscriber has the message at the end of its
\* queue.
EmitDropsForFullQueueOnly ==
    /\ passes < MaxEmits => ENABLED BusEmit
    /\ last.op = "emit" =>
           /\ Len(channel) = Len(last.before)
           /\ \A i \in DOMAIN last.before :
                  /\ channel[i].id = last.before[i].id
                  /\ channel[i].q =
                         IF Len(last.before[i].q) = QueueMaxSize
                         THEN last.before[i].q
                         ELSE Append(last.before[i].q, last.msg)

EmitDropsForFullQueueOnlyWitness ==
    /\ last.op = "emit"
    /\ Len(last.before) = MaxSubscribers
    /\ Len(last.before[1].q) = QueueMaxSize
    /\ channel[1].q = last.before[1].q
    /\ \A i \in 2 .. MaxSubscribers :
           /\ Len(channel[i].q) > 0
           /\ channel[i].q[Len(channel[i].q)] = last.msg

-----------------------------------------------------------------------------
(* Removal of a device that is linked to or associated *)

\* Arrivals correlated at the default threshold, one pass of the tracker,
\* and removals in any order.

SpecRemove ==
    /\ InitCorrelate
    /\ [][ \/ (ArriveRandomized /\ last'.threshold = DefaultThreshold)
           \/ (passes = 0 /\ CoOccurrencePass)
           \/ RemoveDevice ]_vars

\* C35: after a removal that committed, the device is gone, no remaining
\* device has linked_to_device_id equal to its id, the devices that were
\* linked to it have no link_confidence, and no association row names it;
\* after a removal that failed, the devices and the associations are as
\* they were.
RemovalLeavesNoReference ==
    last.op = "remove" =>
        IF last.outcome = "committed"
        THEN /\ last.device \notin DOMAIN devices
             /\ DOMAIN devices = DOMAIN last.before.devices \ { last.device }
             /\ \A x \in DOMAIN devices :
                    /\ devices[x].linked_to_device_id # last.device
                    /\ last.before.devices[x].linked_to_device_id = last.device
                           => devices[x].link_confidence = NoConfidence
             /\ \A a \in associations :
                    a.device1_id # last.device /\ a.device2_id # last.device
        ELSE /\ devices = last.before.devices
             /\ associations = last.before.associations

RemovalLeavesNoReferenceWitness ==
    /\ last.op = "remove"
    /\ last.outcome = "committed"
    /\ \E x \in DOMAIN devices :
           /\ last.before.devices[x].linked_to_device_id = last.device
           /\ last.before.devices[x].link_confidence # NoConfidence
    /\ \E a \in last.before.associations :
           last.device \in { a.device1_id, a.device2_id }
    /\ associations # {}

-----------------------------------------------------------------------------
(* A cycle that finds no host *)

\* C36: a cycle of the scanner process that finds no host sends no batch,
\* so no pass is run on it: the channel, the devices and the events are as
\* before the cycle, whoever was home, and no batch that is queued or being
\* reconciled is empty.
EmptyScanSendsNothing ==
    /\ [](\A i \in DOMAIN channel : channel[i].batch # <<>>)
    /\ [](\A p \in reconciler.active : p.batch # <<>>)
    /\ [][ (last'.op = "cycle" /\ DOMAIN last'.got = {}) =>
              /\ channel' = channel
              /\ reconciler' = reconciler
              /\ devices' = devices
              /\ events' = events ]_vars

EmptyScanSendsNothingWitness ==
    /\ last.op = "cycle"
    /\ last.failure = "none"
    /\ DOMAIN last.table = {}
    /\ ~ last.sent
    /\ channel = <<>>
    /\ reconciler.active = {}
    /\ \E d \in DOMAIN devices : devices[d].is_home

-----------------------------------------------------------------------------
(* One MAC in several records of a batch *)

\* The records of the latest batch that carry mac.
RecordsOf(mac) == { i \in DOMAIN last.batch : last.batch[i].mac = mac }

DevicesOf(mac) == { d \in DOMAIN devices : devices[d].mac_address = mac }

\* C37: after a pass that commits, a MAC that was unknown before and is in
\* several records of the batch has exactly one device, which is home, and
\* the pass has added at most one presence_event row and published at most
\* one notification for it.
OneDevicePerRepeatedMac ==
    PassCommitted =>
        \A mac \in last.macs :
            (Cardinality(RecordsOf(mac)) > 1 /\ ~ KnownMac(last.pre, mac)) =>
                /\ Cardinality(DevicesOf(mac)) = 1
                /\ \A d \in DevicesOf(mac) :
                       /\ devices[d].is_home
                       /\ Cardinality(EventsOf(d)) <= 1
                       /\ Cardinality(PublishedOf(d)) <= 1

OneDevicePerRepeatedMacWitness ==
    /\ PassCommitted
    /\ Len(last.batch) = 2
    /\ last.batch[1].mac = last.batch[2].mac
    /\ ~ KnownMac(last.pre, last.batch[1].mac)
    /\ DOMAIN last.pre # {}
    /\ Cardinality(DevicesOf(last.batch[1].mac)) = 1
    /\ Cardinality(DOMAIN devices) = Cardinality(DOMAIN last.pre) + 1

-----------------------------------------------------------------------------
(* Passes interleaved with changes of track_presence *)

\* A tracked device that a pass has seen arrive: it is home and its
\* 'arrived' event is stored.
InitTracking ==
    /\ devices = (1 :> [ mac_address |-> <<"0", "8">>,
                         name |-> "Custom",
                         owner |-> NoOwner,
                         hostname |-> NoHost,
                         is_randomized_mac |-> FALSE,
                         is_home |-> TRUE,
                         track_presence |-> TRUE,
                         linked_to_device_id |-> NoLink ])
    /\ events = << [ device_id |-> 1, event_type |-> "arrived",
                     timestamp |-> 0 ] >>
    /\ published = <<>>
    /\ snapshots = {}
    /\ now = 0
    /\ scan_interval \in ScanIntervals
    /\ passes = 0
    /\ last = NoHistory
    /\ associations = {}
    /\ ProcIdle

SpecTracking ==
    /\ InitTracking
    /\ [][ ScanLoop \/ UpdateDevice ]_vars

\* C38: the presence_event rows of a device alternate: no two consecutive
\* rows of one device have the same event_type.
EventsAlternate ==
    \A i, j \in DOMAIN events :
        ( /\ i < j
          /\ events[i].device_id = events[j].device_id
          /\ \A k \in (i + 1) .. (j - 1) :
                 events[k].device_id # events[i].device_id )
        => events[i].event_type # events[j].event_type

-----------------------------------------------------------------------------
(* Notifications and the commit *)

\* C39: every notification a pass has published is about a transition that
\* is committed: the device is stored with the is_home value that was
\* announced and the pass has added the presence_event row of that
\* transition; a pass that is rolled back has published nothing.
PublishedOnlyIfCommitted ==
    last.op = "reconcile" =>
        /\ \A i \in DOMAIN published :
               LET d == published[i].device_id
               IN  /\ d \in DOMAIN devices
                   /\ devices[d].is_home = published[i].is_home
                   /\ \E e \in EventsOf(d) :
                          events[e].event_type = published[i].event
        /\ last.outcome = "rolled_back" => published = <<>>

-----------------------------------------------------------------------------
(* The bounded channel *)

\* The number of batches the channel holds.
ChannelCapacity == 1

\* The tables of the cycles below: one host.
OneHostTables == { t \in ScannerTables : DOMAIN t = { IPS[1] } }

\* scanner_process_entry, queue.put(batch) on a full channel: the call
\* waits for a free slot, with the batch in hand.
PutBlocks ==
    \E table \in OneHostTables :
        \E cache \in MdnsCaches(table) :
            /\ scanner.pc = "loop"
            /\ ~ stop_event
            /\ scanner.cycles < MaxCycles
            /\ Len(channel) >= ChannelCapacity
            /\ scanner' = [ scanner EXCEPT !.pc = "put", !.cycles = @ + 1 ]
                             @@ [ pending |-> EnrichData(table, cache) ]
            /\ last' = [ op |-> "put_blocked" ]
            /\ UNCHANGED <<devices, events, published, snapshots, now,
                           scan_interval, passes, associations, stop_event,
                           channel, reconciler>>

\* A slot is free: queue.put(batch) returns and the cycle goes on to its
\* sleep.
PutReturns ==
    /\ scanner.pc = "put"
    /\ Len(channel) < ChannelCapacity
    /\ channel' = Append(channel, [ seq |-> scanner.cycles,
                                    batch |-> scanner.pending ])
    /\ scanner' = GoToSleep([ f \in DOMAIN scanner \ { "pending" } |-> scanner[f] ],
                            SleepTime(scanner.interval, 0),
                            ChunkedSleep(SleepTime(scanner.interval, 0)))
    /\ UNCHANGED <<devices, events, published, snapshots, now, scan_interval,
                   passes, last, associations, stop_event, reconciler>>

\* The scanner process with a channel of ChannelCapacity batches, the
\* receive loop, and the stop signal.
SpecBounded ==
    /\ InitShutdown
    /\ [][
           \/ (ProcessCycleOf(OneHostTables, { "none" }, { 0 })
                 /\ Len(channel') <= ChannelCapacity)
           \/ PutBlocks \/ PutReturns
           \/ ChunkCheck \/ ChunkNap \/ SleepTick \/ LoopExit
           \/ BeginPass \/ EndPass \/ ReceiveLoopExit
           \/ SetStop
          ]_vars

\* The scanner process and the receive loop are each scheduled again and
\* again.
FairBounded ==
    /\ SpecBounded
    /\ WF_vars(PutReturns \/ ChunkCheck \/ ChunkNap \/ SleepTick \/ LoopExit)
    /\ WF_vars(BeginPass \/ EndPass \/ ReceiveLoopExit)

\* C40: once the stop signal is set the scanner process leaves its loop and
\* exits, whatever the channel holds and whether or not the receive loop
\* still takes batches from it.
StopEndsScanner ==
    stop_event ~> scanner.pc = "exited"

====
